---- MODULE Spec2Model ----
(***************************************************************************)
(* Verification model of the two algorithmic pieces of e8-phi-constants:   *)
(*   - the combinatorial CHSH search over the pentagonal prism             *)
(*     (quantum_vacuum_discovery/test_gsm_chsh.py), and                    *)
(*   - the candidate-form matcher is_golden_integer                        *)
(*     (Golden Field Theory/golden_hunter.py).                             *)
(*                                                                         *)
(* Numbers.  Every real the programs compute here is an element of the     *)
(* field Q(sqrt 5), or a square root of one.  A number (a + b*sqrt5)/d is  *)
(* the triple <<a, b, d>> in lowest terms with d > 0; a radical c*sqrt(m)  *)
(* is the pair <<c, m>>.  Arithmetic on them is exact: the floating-point  *)
(* rounding of the programs (IEEE double, < 1e-15 relative, and mpmath at  *)
(* 50 digits) is not modelled, the tolerances the programs compare against *)
(* (1e-6 .. 1e-15) are.  An operation outside the representable cases has  *)
(* no value (Undefined), which stops the check instead of guessing.        *)
(***************************************************************************)
EXTENDS Integers, Sequences, FiniteSets, TLC

Undefined == CHOOSE u \in {} : TRUE

Abs(n) == IF n < 0 THEN -n ELSE n

Sgn(n) == IF n < 0 THEN -1 ELSE IF n > 0 THEN 1 ELSE 0

RECURSIVE GCD(_, _)
GCD(m, n) == IF n = 0 THEN m ELSE GCD(n, m % n)

RECURSIVE Pow10(_)
Pow10(e) == IF e = 0 THEN 1 ELSE 10 * Pow10(e - 1)

(* (a + b*sqrt5)/d in lowest terms, d > 0 *)
QNorm(a, b, d) ==
  LET g == GCD(GCD(Abs(a), Abs(b)), Abs(d))
      s == IF d < 0 THEN -1 ELSE 1
  IN  IF d = 0 THEN Undefined
      ELSE <<(s * a) \div g, (s * b) \div g, (s * d) \div g>>

(* a well-formed number; testing it first evaluates the argument once *)
IsQ(u) == u[3] > 0

QInt(n) == <<n, 0, 1>>

QRat(n, d) == QNorm(n, 0, d)

QAdd(u, y) ==
  LET g == GCD(u[3], y[3])
      m == y[3] \div g
      n == u[3] \div g
  IN  IF IsQ(u) /\ IsQ(y)
      THEN QNorm(u[1] * m + y[1] * n, u[2] * m + y[2] * n, u[3] * m)
      ELSE Undefined

QNeg(u) == <<-u[1], -u[2], u[3]>>

QSub(u, y) == QAdd(u, QNeg(y))

QMul(u, y) ==
  LET g1 == GCD(GCD(Abs(u[1]), Abs(u[2])), y[3])
      g2 == GCD(GCD(Abs(y[1]), Abs(y[2])), u[3])
      xa == u[1] \div g1
      xb == u[2] \div g1
      ya == y[1] \div g2
      yb == y[2] \div g2
  IN  IF IsQ(u) /\ IsQ(y)
      THEN QNorm(xa * ya + 5 * xb * yb, xa * yb + xb * ya,
                 (u[3] \div g2) * (y[3] \div g1))
      ELSE Undefined

QInv(u) ==
  IF ~IsQ(u) \/ (u[1] = 0 /\ u[2] = 0) THEN Undefined
  ELSE QNorm(u[3] * u[1], -(u[3] * u[2]), u[1] * u[1] - 5 * u[2] * u[2])

QDiv(u, y) == QMul(u, QInv(y))

(* sign of A - B*sqrt5 for A, B >= 0, by the continued fraction            *)
(* sqrt5 = [2; 4, 4, ...]: no product is formed, so nothing overflows      *)
RECURSIVE Cmp5(_, _)
Cmp5(A, B) ==
  IF B = 0 THEN Sgn(A)
  ELSE IF A >= 3 * B THEN 1
  ELSE IF A <= 2 * B THEN -1
  ELSE LET r == A - 2 * B
       IN  IF B - 2 * r < 0 THEN 1 ELSE -Cmp5(B - 2 * r, r)

QSign(u) ==
  LET a == u[1]
      b == u[2]
  IN  IF b = 0 THEN Sgn(a)
      ELSE IF a = 0 THEN Sgn(b)
      ELSE IF a > 0 /\ b > 0 THEN 1
      ELSE IF a < 0 /\ b < 0 THEN -1
      ELSE IF a > 0 THEN Cmp5(a, -b)
      ELSE -Cmp5(-a, b)

QLt(u, y) == QSign(QSub(u, y)) < 0

QLe(u, y) == QSign(QSub(u, y)) <= 0

QGt(u, y) == QLt(y, u)

QGe(u, y) == QLe(y, u)

QAbs(u) == IF QSign(u) < 0 THEN QNeg(u) ELSE u

QMax(u, y) == IF QLt(u, y) THEN y ELSE u

RECURSIVE QPow(_, _)
QPow(u, n) ==
  IF n = 0 THEN QInt(1)
  ELSE IF n < 0 THEN QInv(QPow(u, -n))
  ELSE QMul(u, QPow(u, n - 1))

(* sign of q - 10^-e for q >= 0.  For b # 0 the norm a^2 - 5b^2 is a       *)
(* non-zero integer, so a + b*sqrt5 > 1/(|a| + 3|b|): the comparison is    *)
(* settled without forming 10^e whenever d*(|a| + 3|b|) <= 10^min(e,9),    *)
(* and whenever q > 1/10.                                                  *)
CmpPow10(q, e) ==
  LET a == q[1]
      b == q[2]
      d == q[3]
      H == Abs(a) + 3 * Abs(b)
      e9 == IF e > 9 THEN 9 ELSE e
      P == Pow10(e9)
      g == GCD(d, P)
  IN  IF a = 0 /\ b = 0 THEN -1
      ELSE IF b = 0
        THEN IF e > 9 THEN 1
             ELSE IF a > d \div P THEN 1
             ELSE IF a = d \div P /\ d % P = 0 THEN 0
             ELSE -1
      ELSE IF H <= P \div d THEN 1
      ELSE IF e >= 1 /\ QSign(QSub(q, QRat(1, 10))) > 0 THEN 1
      ELSE IF e <= 9
        THEN QSign(<<a * (P \div g) - d \div g, b * (P \div g), 1>>)
      ELSE Undefined

(* q > 10^-e and q < 10^-e *)
GtTol(q, e) == QSign(q) > 0 /\ CmpPow10(q, e) > 0

LtTol(q, e) == QSign(q) <= 0 \/ CmpPow10(q, e) < 0

(* math.isclose(a, b, rel_tol = 10^-e): |a - b| <= rel_tol * max(|a|, |b|) *)
IsClose(a, b, e) ==
  LET diff == QAbs(QSub(a, b))
      big  == QMax(QAbs(a), QAbs(b))
  IN  IF a = b THEN TRUE
      ELSE ~GtTol(QDiv(diff, big), e)

(* radicals c*sqrt(m): math.sqrt and the products the programs form *)
Sqrt(m) == IF QSign(m) < 0 THEN Undefined ELSE <<QInt(1), m>>

RScale(c, r) == <<QMul(c, r[1]), r[2]>>

RDiv(r, s) == <<QDiv(r[1], s[1]), QDiv(r[2], s[2])>>

RNeg(r) == <<QNeg(r[1]), r[2]>>

RMul(r, s) ==
  IF r[2] = s[2] THEN QMul(QMul(r[1], s[1]), r[2]) ELSE Undefined

RSign(r) == IF QSign(r[2]) = 0 THEN 0 ELSE QSign(r[1])

(* q < r for a number q and a radical r, by comparing squares *)
QLtR(q, r) ==
  LET q2 == QMul(q, q)
      r2 == RMul(r, r)
  IN  IF QSign(q) < 0 /\ RSign(r) >= 0 THEN TRUE
      ELSE IF QSign(q) >= 0 /\ RSign(r) <= 0 THEN FALSE
      ELSE IF QSign(q) > 0 THEN QLt(q2, r2)
      ELSE QLt(r2, q2)

(* a lower bound of |r - t| for a radical r >= 0 and a number t > 0 with *)
(* r^2 # t^2: |r - t| = |r^2 - t^2|/(r + t) and r <= r^2 + 1              *)
RGap(r, t) ==
  LET r2 == RMul(r, r)
  IN  QDiv(QAbs(QSub(r2, QMul(t, t))), QAdd(QAdd(r2, QInt(1)), t))

(* math.isclose(r, t, rel_tol = 10^-e) for a radical r >= 0 *)
IsCloseR(r, t, e) ==
  LET r2 == RMul(r, r)
      M  == QAdd(QAdd(r2, QInt(1)), t)
  IN  IF RSign(r) < 0 THEN Undefined
      ELSE IF QSign(t) <= 0 THEN RSign(r) = 0 /\ QSign(t) = 0
      ELSE IF r2 = QMul(t, t) THEN TRUE
      ELSE IF GtTol(QDiv(RGap(r, t), M), e) THEN FALSE
      ELSE Undefined

(* assertAlmostEqual(a, b, places = p): a == b or round(|a - b|, p) == 0 *)
AlmostEqual(a, b, p) ==
  a = b \/ LtTol(QMul(QInt(2), QAbs(QSub(a, b))), p)

AlmostEqualR(r, t, p) ==
  IF RSign(r) < 0 \/ QSign(t) <= 0 THEN Undefined
  ELSE IF RMul(r, r) = QMul(t, t) THEN TRUE
  ELSE IF GtTol(QMul(QInt(2), RGap(r, t)), p) THEN FALSE
  ELSE Undefined

(* ---------------- state ---------------- *)

(* brute_force_chsh: position, arguments, locals and the returned record *)
VARIABLES pc, require_distinct, verts, ia, iap, ib, ibp,
          best_S, best_quad, count_optimal, count_exceeds, total, result

(* the unittest run: each test's outcome, and the vertex list the prism *)
(* test that ran last was handed                                        *)
VARIABLES outcome, tverts

(* is_golden_integer: position, arguments, the list being built, the lists *)
(* returned so far, and mpmath's global precision mp.dps                  *)
VARIABLES mpc, x, tolerance, candidates, returned, mp_dps

(* uniqueness_scan: position, argument, the loop indices i and ia, the *)
(* locals verts, best and results, and the returned dictionary         *)
VARIABLES scan_pc, n_heights, scan_i, scan_verts, scan_ia, scan_best, results,
          scan_result

(* the algebra functions called so far, each with the value it returned *)
VARIABLES calls

(* E8Lattice(): position, the index of the running loop, the local roots *)
(* and the attribute self.roots (None before it is assigned)            *)
VARIABLES e8_pc, e8_k, roots, self_roots

(* build_600cell_vertices: position, the index of the running loop, the   *)
(* locals vertices and unique, whether the warning was printed, and the   *)
(* returned array                                                         *)
VARIABLES cell_pc, cell_k, vertices, unique, warned, cell_result

(* casimir_uniqueness_test.py: position, the index of the running loop, the *)
(* module's globals, the conclusion printed about exponent 5, the loop      *)
(* variables num_terms and exp_combo (as indices into SEARCH_EXPONENTS),    *)
(* and the list results as its length and the entry its sort puts first     *)
VARIABLES cas_pc, cas_k, CASIMIR_PRODUCTS, VALID_EXPONENTS, exponent5,
          SEARCH_EXPONENTS, num_terms, exp_combo, n_results, first_result,
          best_valid

(* gsm_multiparty_bounds.py: the function called, its argument n, the *)
(* position of the call and its outcome                              *)
VARIABLES party_pc, party_fn, party_n, party_out

(* fibonacci_number: position, argument, the loop counter, the locals a *)
(* and b, and the returned value                                        *)
VARIABLES fib_pc, fib_n, fib_i, fib_a, fib_b, fib_out

(* golden_hunter: position, the arguments exp_value and spin, the index of *)
(* the correction the loop is at, the local best_matches and the returned *)
(* list                                                                    *)
VARIABLES hunt_pc, exp_value, spin, hunt_i, best_matches, hunt_out

chshVars == <<pc, require_distinct, verts, ia, iap, ib, ibp,
              best_S, best_quad, count_optimal, count_exceeds, total, result>>

testVars == <<outcome, tverts>>

matchVars == <<mpc, x, tolerance, candidates, returned, mp_dps>>

scanVars == <<scan_pc, n_heights, scan_i, scan_verts, scan_ia, scan_best, results,
              scan_result>>

e8Vars == <<e8_pc, e8_k, roots, self_roots>>

cellVars == <<cell_pc, cell_k, vertices, unique, warned, cell_result>>

casVars == <<cas_pc, cas_k, CASIMIR_PRODUCTS, VALID_EXPONENTS, exponent5,
             SEARCH_EXPONENTS, num_terms, exp_combo, n_results, first_result,
             best_valid>>

(* the state of the programs modelled first, and of those modelled later *)
coreVars == <<chshVars, testVars, matchVars, scanVars, calls, e8Vars, cellVars>>

partyVars == <<party_pc, party_fn, party_n, party_out>>

fibVars == <<fib_pc, fib_n, fib_i, fib_a, fib_b, fib_out>>

huntVars == <<hunt_pc, exp_value, spin, hunt_i, best_matches, hunt_out>>

restVars == <<casVars, partyVars, fibVars, huntVars>>

vars == <<coreVars, restVars>>

notChsh == <<testVars, matchVars, scanVars, calls, e8Vars, cellVars, restVars>>

notTests == <<chshVars, matchVars, scanVars, calls, e8Vars, cellVars, restVars>>

notMatch == <<chshVars, testVars, scanVars, calls, e8Vars, cellVars, restVars>>

notScan == <<chshVars, testVars, matchVars, calls, e8Vars, cellVars, restVars>>

notCalls == <<chshVars, testVars, matchVars, scanVars, e8Vars, cellVars, restVars>>

notE8 == <<chshVars, testVars, matchVars, scanVars, calls, cellVars, restVars>>

notCell == <<chshVars, testVars, matchVars, scanVars, calls, e8Vars, restVars>>

notCas == <<coreVars, partyVars, fibVars, huntVars>>

notParty == <<coreVars, casVars, fibVars, huntVars>>

notFib == <<coreVars, casVars, partyVars, huntVars>>

notHunt == <<coreVars, casVars, partyVars, fibVars>>

None == <<>>

(* ---------------- test_gsm_chsh.py: constants ---------------- *)

(* math.sqrt(5) *)
SQRT5 == <<0, 1, 1>>

(* mutant: 1 + math.sqrt(5) / 2, the parentheses lost *)
PHIUnparenthesised == QAdd(QInt(1), QDiv(SQRT5, QInt(2)))

(* PHI = (1 + math.sqrt(5)) / 2 *)
PHI == QDiv(QAdd(QInt(1), SQRT5), QInt(2))

GSM_BOUND == QSub(QInt(4), PHI)

(* mutant: the factor 2 dropped *)
TsirelsonUnscaled == Sqrt(QInt(2))

TSIRELSON == RScale(QInt(2), Sqrt(QInt(2)))

F == <<0, 1, 1, 2, 3, 5, 8, 13, 21, 34, 55, 89, 144>>

L == <<2, 1, 3, 4, 7, 11, 18, 29, 47, 76, 123>>

(* math.cos(2*pi*k/5) and math.sin(2*pi*k/5), k = 0..4: cos 72 = (sqrt5-1)/4, *)
(* cos 144 = -(sqrt5+1)/4, sin 72 = sqrt((5+sqrt5)/8), sin 144 = sin 72 *    *)
(* (sqrt5-1)/2                                                              *)
Cos5(k) ==
  LET c == CASE k = 0 -> QInt(1)
             [] k = 1 \/ k = 4 -> <<-1, 1, 4>>
             [] k = 2 \/ k = 3 -> <<-1, -1, 4>>
  IN  <<c, QInt(1)>>

Sin5(k) ==
  LET c == CASE k = 0 -> QInt(0)
             [] k = 1 -> QInt(1)
             [] k = 2 -> <<-1, 1, 2>>
             [] k = 3 -> <<1, -1, 2>>
             [] k = 4 -> QInt(-1)
  IN  <<c, <<5, 1, 8>>>>

(* mutant: the lower ring is not reflected, both rings get z = +h/R *)
PrismVerticesUnreflected(h_sq) ==
  LET h == Sqrt(h_sq)
      R == Sqrt(QAdd(QInt(1), h_sq))
  IN  [n \in 1..10 |->
        LET k == (n - 1) \div 2
        IN  <<RDiv(Cos5(k), R), RDiv(Sin5(k), R), RDiv(h, R)>>]

(* mutant: R = sqrt(h_sq), the 1 + forgotten *)
NormaliserSqBare(h_sq) == h_sq

(* R^2 for R = math.sqrt(1 + h_sq) *)
NormaliserSq(h_sq) == QAdd(QInt(1), h_sq)

(* the ten prism vertices for height^2 = h_sq, upper and lower ring interleaved *)
PrismVertices(h_sq) ==
  LET h == Sqrt(h_sq)
      R == Sqrt(NormaliserSq(h_sq))
  IN  [n \in 1..10 |->
        LET k == (n - 1) \div 2
            vx == RDiv(Cos5(k), R)
            vy == RDiv(Sin5(k), R)
        IN  IF n % 2 = 1 THEN <<vx, vy, RDiv(h, R)>>
                         ELSE <<vx, vy, RDiv(RNeg(h), R)>>]

(* mutant: 3 / 2 * PHI, the division and the product in the wrong order *)
PrismHeightSqSlip == QMul(QDiv(QInt(3), QInt(2)), PHI)

(* h_sq = 3 / (2 * PHI) *)
PrismHeightSq == QDiv(QInt(3), QMul(QInt(2), PHI))

pentagonal_prism_vertices == PrismVertices(PrismHeightSq)

dot(a, b) == QAdd(QAdd(RMul(a[1], b[1]), RMul(a[2], b[2])), RMul(a[3], b[3]))

(* S = -a.b + a.b' + a'.b + a'.b' *)
(* mutant: the minus sign of the first correlator dropped *)
ChshSAllPlus(a, ap, b, bp) ==
  QAdd(QAdd(QAdd(dot(a, b), dot(a, bp)), dot(ap, b)), dot(ap, bp))

ChshS(a, ap, b, bp) ==
  QAdd(QAdd(QAdd(QNeg(dot(a, b)), dot(a, bp)), dot(ap, b)), dot(ap, bp))

E8Idle ==
  /\ e8_pc = "idle"
  /\ e8_k = 0
  /\ roots = <<>>
  /\ self_roots = None

CellIdle ==
  /\ cell_pc = "idle"
  /\ cell_k = 0
  /\ vertices = <<>>
  /\ unique = <<>>
  /\ warned = FALSE
  /\ cell_result = None

CasIdle ==
  /\ cas_pc = "idle"
  /\ cas_k = 0
  /\ CASIMIR_PRODUCTS = {}
  /\ VALID_EXPONENTS = <<>>
  /\ exponent5 = None
  /\ SEARCH_EXPONENTS = <<>>
  /\ num_terms = 0
  /\ exp_combo = <<>>
  /\ n_results = 0
  /\ first_result = None
  /\ best_valid = None

PartyIdle ==
  /\ party_pc = "idle"
  /\ party_fn = None
  /\ party_n = 0
  /\ party_out = None

FibIdle ==
  /\ fib_pc = "idle"
  /\ fib_n = 0
  /\ fib_i = 0
  /\ fib_a = 0
  /\ fib_b = 0
  /\ fib_out = None

HuntIdle ==
  /\ hunt_pc = "idle"
  /\ exp_value = QInt(0)
  /\ spin = QInt(0)
  /\ hunt_i = 0
  /\ best_matches = <<>>
  /\ hunt_out = None

RestIdle == CasIdle /\ PartyIdle /\ FibIdle /\ HuntIdle

TestsIdle ==
  /\ outcome = <<>>
  /\ tverts = <<>>

MatchIdle ==
  /\ mpc = "idle"
  /\ x = QInt(0)
  /\ tolerance = QInt(1)
  /\ candidates = <<>>
  /\ returned = <<>>
  /\ mp_dps = 50

ScanIdle ==
  /\ calls = <<>>
  /\ scan_pc = "idle"
  /\ n_heights = 0
  /\ scan_i = 0
  /\ scan_verts = <<>>
  /\ scan_ia = 0
  /\ scan_best = QInt(0)
  /\ results = <<>>
  /\ scan_result = None

(* ---------------- brute_force_chsh ---------------- *)

NVerts == Len(verts)

ChshIdle ==
  /\ pc = "idle"
  /\ require_distinct = FALSE
  /\ verts = <<>>
  /\ ia = 0 /\ iap = 0 /\ ib = 0 /\ ibp = 0
  /\ best_S = QInt(0)
  /\ best_quad = None
  /\ count_optimal = 0
  /\ count_exceeds = 0
  /\ total = 0
  /\ result = None

(* every program modelled up to build_600cell_vertices is idle *)
CoreIdle ==
  /\ ChshIdle
  /\ TestsIdle
  /\ MatchIdle
  /\ ScanIdle
  /\ E8Idle
  /\ CellIdle

ChshInit ==
  /\ pc = "call"
  /\ require_distinct \in BOOLEAN
  /\ verts = <<>>
  /\ ia = 0 /\ iap = 0 /\ ib = 0 /\ ibp = 0
  /\ best_S = QInt(0)
  /\ best_quad = None
  /\ count_optimal = 0
  /\ count_exceeds = 0
  /\ total = 0
  /\ result = None
  /\ TestsIdle
  /\ MatchIdle
  /\ ScanIdle
  /\ E8Idle
  /\ CellIdle
  /\ RestIdle

(* lines 342-350: the vertices and the accumulators, then the first iteration *)
ChshEnter ==
  /\ pc = "call"
  /\ verts' = pentagonal_prism_vertices
  /\ best_S' = QInt(0)
  /\ best_quad' = None
  /\ count_optimal' = 0
  /\ count_exceeds' = 0
  /\ total' = 0
  /\ ia' = 0 /\ iap' = 0 /\ ib' = 0 /\ ibp' = 0
  /\ pc' = "loop"
  /\ UNCHANGED <<require_distinct, result>>
  /\ UNCHANGED notChsh

(* mutant: the innermost loop runs over range(n - 1) *)
NextPosShort(n, a, p, b, q, lvl) ==
  IF lvl = 4 /\ q + 1 < n - 1 THEN <<a, p, b, q + 1>>
  ELSE IF lvl = 4 /\ b + 1 < n THEN <<a, p, b + 1, 0>>
  ELSE IF p + 1 < n THEN <<a, p + 1, 0, 0>>
  ELSE <<a + 1, 0, 0, 0>>

(* the loop position after the iteration at <<a, p, b, q>> of the loop at *)
(* depth lvl (2: iap, 4: ibp) ends; <<n, 0, 0, 0>> is the end of the loops *)
NextPos(n, a, p, b, q, lvl) ==
  IF lvl = 4 /\ q + 1 < n THEN <<a, p, b, q + 1>>
  ELSE IF lvl = 4 /\ b + 1 < n THEN <<a, p, b + 1, 0>>
  ELSE IF p + 1 < n THEN <<a, p + 1, 0, 0>>
  ELSE <<a + 1, 0, 0, 0>>

Advance(lvl) ==
  LET nx == NextPos(NVerts, ia, iap, ib, ibp, lvl)
  IN  /\ ia' = nx[1] /\ iap' = nx[2] /\ ib' = nx[3] /\ ibp' = nx[4]
      /\ pc' = IF nx[1] < NVerts THEN "loop" ELSE "return"

(* lines 354-355: continue *)
ChshSkipA ==
  /\ pc = "loop"
  /\ require_distinct /\ ia = iap
  /\ Advance(2)
  /\ UNCHANGED <<require_distinct, verts, best_S, best_quad, count_optimal,
                 count_exceeds, total, result>>
  /\ UNCHANGED notChsh

(* lines 358-359: continue *)
ChshSkipB ==
  /\ pc = "loop"
  /\ ~(require_distinct /\ ia = iap)
  /\ require_distinct /\ ib = ibp
  /\ Advance(4)
  /\ UNCHANGED <<require_distinct, verts, best_S, best_quad, count_optimal,
                 count_exceeds, total, result>>
  /\ UNCHANGED notChsh

ExceedsTarget(absS, target) == GtTol(QSub(absS, target), 10)

(* mutant: a tie replaces the best, |S| >= best_S *)
NewBestOrEqual(absS, best) == QGe(absS, best)

NewBest(absS, best) == GtTol(QSub(absS, best), 12)

TiesBest(absS, best) == LtTol(QAbs(QSub(absS, best)), 12)

(* lines 360-377 *)
ChshBody ==
  /\ pc = "loop"
  /\ ~(require_distinct /\ ia = iap)
  /\ ~(require_distinct /\ ib = ibp)
  /\ LET S == ChshS(verts[ia + 1], verts[iap + 1], verts[ib + 1], verts[ibp + 1])
         absS == QAbs(S)
     IN  /\ total' = total + 1
         /\ count_exceeds' = IF ExceedsTarget(absS, GSM_BOUND)
                             THEN count_exceeds + 1 ELSE count_exceeds
         /\ IF NewBest(absS, best_S)
            THEN /\ best_S' = absS
                 /\ best_quad' = <<ia, iap, ib, ibp>>
                 /\ count_optimal' = 1
            ELSE /\ UNCHANGED <<best_S, best_quad>>
                 /\ count_optimal' = IF TiesBest(absS, best_S)
                                     THEN count_optimal + 1 ELSE count_optimal
  /\ Advance(4)
  /\ UNCHANGED <<require_distinct, verts, result>>
  /\ UNCHANGED notChsh

(* lines 379-388 *)
ChshReturn ==
  /\ pc = "return"
  /\ result' = [max_S |-> best_S,
                target |-> GSM_BOUND,
                matches |-> IsClose(best_S, GSM_BOUND, 10),
                optimal_quadruples |-> count_optimal,
                exceeds_bound |-> count_exceeds,
                total_quadruples |-> total,
                best_quad_indices |-> best_quad,
                relative_error |-> QDiv(QAbs(QSub(best_S, GSM_BOUND)), GSM_BOUND)]
  /\ pc' = "done"
  /\ UNCHANGED <<require_distinct, verts, ia, iap, ib, ibp, best_S, best_quad,
                 count_optimal, count_exceeds, total>>
  /\ UNCHANGED notChsh

ChshNext == ChshEnter \/ ChshSkipA \/ ChshSkipB \/ ChshBody \/ ChshReturn

SpecChsh == ChshInit /\ [][ChshNext]_vars

(* ---------------- algebraic identity verification ---------------- *)

verify_golden_ratio ==
  <<QPow(PHI, 2), QAdd(PHI, QInt(1)),
    IsClose(QPow(PHI, 2), QAdd(PHI, QInt(1)), 15)>>

verify_bell_squared ==
  LET lhs == QPow(QSub(QInt(4), PHI), 2)
      rhs == QSub(QInt(17), QMul(QInt(7), PHI))
  IN  <<lhs, rhs, IsClose(lhs, rhs, 15)>>

verify_expansion ==
  LET expanded == QAdd(QSub(QInt(16), QMul(QInt(8), PHI)), QPow(PHI, 2))
      using_identity ==
        QAdd(QAdd(QSub(QInt(16), QMul(QInt(8), PHI)), PHI), QInt(1))
      target == QSub(QInt(17), QMul(QInt(7), PHI))
  IN  <<expanded, target,
        IsClose(expanded, target, 15) /\ IsClose(using_identity, target, 15)>>

verify_alternative_forms ==
  LET target == GSM_BOUND
  IN  <<IsClose(QSub(QInt(4), PHI), target, 14),
        IsClose(QDiv(QSub(QInt(7), SQRT5), QInt(2)), target, 14),
        IsClose(QAdd(QInt(2), QPow(PHI, -2)), target, 14),
        IsClose(QSub(QInt(L[4]), PHI), target, 14),
        IsCloseR(Sqrt(QSub(QInt(17), QMul(QInt(7), PHI))), target, 14),
        IsClose(QAdd(QInt(2), QSub(QInt(2), PHI)), target, 14)>>

(* ---------------- the unit tests ---------------- *)

TestNames ==
  {"test_golden_ratio_identity", "test_bell_squared_identity",
   "test_bell_squared_expansion",
   "test_gsm_bound_between_classical_and_tsirelson",
   "test_alternative_forms", "test_fibonacci_recurrence",
   "test_lucas_recurrence", "test_vertices_on_unit_sphere",
   "test_vertex_count", "test_pentagonal_symmetry",
   "test_upper_lower_reflection"}

TestsInit ==
  /\ outcome = [t \in TestNames |-> "pending"]
  /\ tverts = <<>>
  /\ ChshIdle
  /\ MatchIdle
  /\ ScanIdle
  /\ E8Idle
  /\ CellIdle
  /\ RestIdle

(* one test method: it runs once and passes or fails *)
RunTest(t, passes) ==
  /\ outcome # <<>>
  /\ outcome[t] = "pending"
  /\ outcome' = [outcome EXCEPT ![t] = IF passes THEN "ok" ELSE "FAIL"]
  /\ UNCHANGED notTests

test_golden_ratio_identity ==
  /\ RunTest("test_golden_ratio_identity", verify_golden_ratio[3])
  /\ UNCHANGED tverts

test_bell_squared_identity ==
  /\ RunTest("test_bell_squared_identity", verify_bell_squared[3])
  /\ UNCHANGED tverts

test_bell_squared_expansion ==
  /\ RunTest("test_bell_squared_expansion", verify_expansion[3])
  /\ UNCHANGED tverts

test_gsm_bound_between_classical_and_tsirelson ==
  /\ RunTest("test_gsm_bound_between_classical_and_tsirelson",
             QGt(GSM_BOUND, QInt(2)) /\ QLtR(GSM_BOUND, TSIRELSON))
  /\ UNCHANGED tverts

test_alternative_forms ==
  /\ RunTest("test_alternative_forms",
             \A n \in DOMAIN verify_alternative_forms :
                verify_alternative_forms[n])
  /\ UNCHANGED tverts

test_fibonacci_recurrence ==
  /\ RunTest("test_fibonacci_recurrence",
             \A i \in 2..(Len(F) - 1) : F[i + 1] = F[i] + F[i - 1])
  /\ UNCHANGED tverts

test_lucas_recurrence ==
  /\ RunTest("test_lucas_recurrence",
             \A i \in 2..(Len(L) - 1) : L[i + 1] = L[i] + L[i - 1])
  /\ UNCHANGED tverts

Norm(v) == Sqrt(QAdd(QAdd(RMul(v[1], v[1]), RMul(v[2], v[2])), RMul(v[3], v[3])))

(* assertAlmostEqual on two coordinates c1*sqrt(m), c2*sqrt(m): equal, or *)
(* apart by |c1 - c2|*sqrt(m) >= |c1 - c2|*min(m, 1)                      *)
CoordAlmostEqual(r, s, p) ==
  LET m  == r[2]
      lb == QMul(QAbs(QSub(r[1], s[1])), IF QLt(m, QInt(1)) THEN m ELSE QInt(1))
  IN  IF r[2] # s[2] THEN Undefined
      ELSE IF r[1] = s[1] \/ QSign(m) = 0 THEN TRUE
      ELSE IF GtTol(QMul(QInt(2), lb), p) THEN FALSE
      ELSE Undefined

test_vertices_on_unit_sphere ==
  /\ RunTest("test_vertices_on_unit_sphere",
             \A n \in DOMAIN pentagonal_prism_vertices :
                AlmostEqualR(Norm(pentagonal_prism_vertices[n]), QInt(1), 14))
  /\ tverts' = pentagonal_prism_vertices

test_vertex_count ==
  /\ RunTest("test_vertex_count", Len(pentagonal_prism_vertices) = 10)
  /\ tverts' = pentagonal_prism_vertices

test_pentagonal_symmetry ==
  /\ RunTest("test_pentagonal_symmetry",
             LET v == pentagonal_prism_vertices
             IN  \A k \in 0..4 : CoordAlmostEqual(v[2 * k + 1][3], v[1][3], 14))
  /\ tverts' = pentagonal_prism_vertices

test_upper_lower_reflection ==
  /\ RunTest("test_upper_lower_reflection",
             LET v == pentagonal_prism_vertices
             IN  \A k \in 0..4 :
                   /\ CoordAlmostEqual(v[2 * k + 1][1], v[2 * k + 2][1], 14)
                   /\ CoordAlmostEqual(v[2 * k + 1][2], v[2 * k + 2][2], 14)
                   /\ CoordAlmostEqual(v[2 * k + 1][3], RNeg(v[2 * k + 2][3]), 14))
  /\ tverts' = pentagonal_prism_vertices

TestsNext ==
  \/ test_golden_ratio_identity
  \/ test_bell_squared_identity
  \/ test_bell_squared_expansion
  \/ test_gsm_bound_between_classical_and_tsirelson
  \/ test_alternative_forms
  \/ test_fibonacci_recurrence
  \/ test_lucas_recurrence
  \/ test_vertices_on_unit_sphere
  \/ test_vertex_count
  \/ test_pentagonal_symmetry
  \/ test_upper_lower_reflection

SpecTests == TestsInit /\ [][TestsNext]_vars

(* ---------------- Cartan matrices, determinants and the three proofs ---------------- *)

h2_cartan_matrix ==
  <<<<QInt(2), QNeg(PHI)>>,
    <<QNeg(PHI), QInt(2)>>>>

h3_cartan_matrix ==
  <<<<QInt(2), QNeg(PHI), QInt(0)>>,
    <<QNeg(PHI), QInt(2), QInt(-1)>>,
    <<QInt(0), QInt(-1), QInt(2)>>>>

h4_cartan_matrix ==
  <<<<QInt(2), QNeg(PHI), QInt(0), QInt(0)>>,
    <<QNeg(PHI), QInt(2), QInt(-1), QInt(0)>>,
    <<QInt(0), QInt(-1), QInt(2), QInt(-1)>>,
    <<QInt(0), QInt(0), QInt(-1), QInt(2)>>>>

(* m[i][j] of the source is m[i + 1][j + 1] here *)
det2(m) == QSub(QMul(m[1][1], m[2][2]), QMul(m[1][2], m[2][1]))

(* mutant: the middle cofactor added instead of subtracted *)
det3Unsigned(m) ==
  QAdd(QAdd(QMul(m[1][1], det2(<<<<m[2][2], m[2][3]>>, <<m[3][2], m[3][3]>>>>)),
            QMul(m[1][2], det2(<<<<m[2][1], m[2][3]>>, <<m[3][1], m[3][3]>>>>))),
       QMul(m[1][3], det2(<<<<m[2][1], m[2][2]>>, <<m[3][1], m[3][2]>>>>)))

det3(m) ==
  QAdd(QSub(QMul(m[1][1], QSub(QMul(m[2][2], m[3][3]), QMul(m[2][3], m[3][2]))),
            QMul(m[1][2], QSub(QMul(m[2][1], m[3][3]), QMul(m[2][3], m[3][1])))),
       QMul(m[1][3], QSub(QMul(m[2][1], m[3][2]), QMul(m[2][2], m[3][1]))))

(* cofactor expansion along the first row *)
det4(m) ==
  LET minor(j) ==
        [i \in 1..3 |-> [k \in 1..3 |-> m[i + 1][IF k < j THEN k ELSE k + 1]]]
      term(j) ==
        QMul(QMul(QInt(IF j % 2 = 1 THEN 1 ELSE -1), m[1][j]), det3(minor(j)))
  IN  QAdd(QAdd(QAdd(QAdd(QInt(0), term(1)), term(2)), term(3)), term(4))

compute_cartan_determinants ==
  [det_C_H2 |-> det2(h2_cartan_matrix),
   det_C_H3 |-> det3(h3_cartan_matrix),
   det_C_H4 |-> det4(h4_cartan_matrix)]

(* mutant: every determinant divided by 4 *)
GramDeterminantsBy4(dets) ==
  [det_G_H2 |-> QDiv(dets.det_C_H2, QInt(4)),
   det_G_H3 |-> QDiv(dets.det_C_H3, QInt(4)),
   det_G_H4 |-> QDiv(dets.det_C_H4, QInt(4))]

(* the body of compute_gram_determinants, dets = compute_cartan_determinants() *)
GramDeterminants(dets) ==
  [det_G_H2 |-> QDiv(dets.det_C_H2, QInt(4)),
   det_G_H3 |-> QDiv(dets.det_C_H3, QInt(8)),
   det_G_H4 |-> QDiv(dets.det_C_H4, QInt(16))]

compute_gram_determinants == GramDeterminants(compute_cartan_determinants)

(* the body of verify_determinant_pattern: (n, actual, expected, isclose) *)
(* for n = 2, 3, 4                                                       *)
DeterminantPattern(dets) ==
  LET keys == <<"det_C_H2", "det_C_H3", "det_C_H4">>
  IN  [j \in 1..3 |->
        <<j + 1, dets[keys[j]], QSub(QInt(j + 2), QMul(QInt(j), PHI)),
          IsClose(dets[keys[j]], QSub(QInt(j + 2), QMul(QInt(j), PHI)), 14)>>]

verify_determinant_pattern == DeterminantPattern(compute_cartan_determinants)

(* the body of proof_i_cartan from gamma_sq on *)
ProofI(dets, gamma_sq) ==
  [det_C_H3 |-> dets.det_C_H3,
   det_C_H4 |-> dets.det_C_H4,
   gamma_squared |-> gamma_sq,
   gamma_squared_expected |-> QDiv(QSub(QInt(13), QMul(QInt(7), PHI)), QInt(4)),
   bell_squared |-> QMul(QInt(4), QAdd(QInt(1), gamma_sq)),
   bell_squared_expected |-> QSub(QInt(17), QMul(QInt(7), PHI)),
   S_max |-> Sqrt(QMul(QInt(4), QAdd(QInt(1), gamma_sq))),
   target |-> GSM_BOUND,
   verified |-> IsCloseR(Sqrt(QMul(QInt(4), QAdd(QInt(1), gamma_sq))),
                         GSM_BOUND, 14)]

GammaSq(dets) ==
  QAdd(QDiv(dets.det_C_H3, QInt(2)), QDiv(dets.det_C_H4, QInt(4)))

proof_i_cartan ==
  ProofI(compute_cartan_determinants, GammaSq(compute_cartan_determinants))

(* the body of proof_ii_gram from S on; the key "16*(G_H3 - G_H4)" of the *)
(* source is the field relation                                           *)
ProofII(c_dets, g_dets, rel) ==
  [det_G_H3 |-> g_dets.det_G_H3,
   det_G_H4 |-> g_dets.det_G_H4,
   relation |-> rel,
   det_C_H2 |-> c_dets.det_C_H2,
   hierarchy_verified |-> IsClose(rel, c_dets.det_C_H2, 14),
   S_max |-> QAdd(QInt(1), c_dets.det_C_H2),
   target |-> GSM_BOUND,
   verified |-> IsClose(QAdd(QInt(1), c_dets.det_C_H2), GSM_BOUND, 14)]

Relation(g_dets) == QMul(QInt(16), QSub(g_dets.det_G_H3, g_dets.det_G_H4))

proof_ii_gram ==
  ProofII(compute_cartan_determinants, compute_gram_determinants,
          Relation(compute_gram_determinants))

(* the body of proof_iii_prism after its five assignments *)
ProofIII(h_sq, S_rational, lhs, rhs, h_sq_from_gram) ==
  [h_squared |-> h_sq,
   h |-> Sqrt(h_sq),
   S_rational |-> S_rational,
   cross_lhs |-> lhs,
   cross_rhs |-> rhs,
   cross_verified |-> IsClose(lhs, rhs, 14),
   h_sq_from_gram |-> h_sq_from_gram,
   gram_connection_verified |-> IsClose(h_sq, h_sq_from_gram, 14),
   S_max |-> S_rational,
   target |-> GSM_BOUND,
   verified |-> IsClose(S_rational, GSM_BOUND, 14)]

proof_iii_prism ==
  ProofIII(QDiv(QInt(3), QMul(QInt(2), PHI)),
           QDiv(QSub(QMul(QInt(10), PHI), QInt(7)),
                QSub(QMul(QInt(3), PHI), QInt(1))),
           QMul(QSub(QInt(4), PHI), QSub(QMul(QInt(3), PHI), QInt(1))),
           QSub(QMul(QInt(10), PHI), QInt(7)),
           QMul(QMul(QInt(6), PHI), compute_gram_determinants.det_G_H3))

(* ---------------- h4_eigenvalues ---------------- *)

(* disc = math.sqrt(6 + 3 * PHI) is not in Q(sqrt5): the numbers p + q*disc, *)
(* p and q in Q(sqrt5), are kept as pairs <<p, q>>                          *)
DiscSq == QAdd(QInt(6), QMul(QInt(3), PHI))

KNum(p) == <<p, QInt(0)>>

KAdd(a, b) == <<QAdd(a[1], b[1]), QAdd(a[2], b[2])>>

KNeg(a) == <<QNeg(a[1]), QNeg(a[2])>>

KMul(a, b) ==
  <<QAdd(QMul(a[1], b[1]), QMul(QMul(a[2], b[2]), DiscSq)),
    QAdd(QMul(a[1], b[2]), QMul(a[2], b[1]))>>

(* sign of p + q*disc: by the signs of p and q, else by p^2 against q^2 disc^2 *)
KSign(a) ==
  LET sp == QSign(a[1])
      sq == QSign(a[2])
  IN  IF sq = 0 \/ sp = sq THEN sp
      ELSE IF sp = 0 THEN sq
      ELSE sp * QSign(QSub(QMul(a[1], a[1]), QMul(QMul(a[2], a[2]), DiscSq)))

(* the roots of u^2 - (3 + PHI) u + PHI^2 = 0 *)
u1 == <<QDiv(QAdd(QInt(3), PHI), QInt(2)), QRat(1, 2)>>

u2 == <<QDiv(QAdd(QInt(3), PHI), QInt(2)), QRat(-1, 2)>>

(* the numbers A + B*sqrt(u1), A and B pairs as above, are kept as <<A, B>> *)
LNum(p) == <<KNum(p), KNum(QInt(0))>>

LAdd(a, b) == <<KAdd(a[1], b[1]), KAdd(a[2], b[2])>>

LNeg(a) == <<KNeg(a[1]), KNeg(a[2])>>

LMul(a, b) ==
  <<KAdd(KMul(a[1], b[1]), KMul(KMul(a[2], b[2]), u1)),
    KAdd(KMul(a[1], b[2]), KMul(a[2], b[1]))>>

LSign(a) ==
  LET sA == KSign(a[1])
      sB == KSign(a[2])
  IN  IF sB = 0 \/ sA = sB THEN sA
      ELSE IF sA = 0 THEN sB
      ELSE sA * KSign(KAdd(KMul(a[1], a[1]),
                           KNeg(KMul(KMul(a[2], a[2]), u1))))

(* math.sqrt(u) for u = u1 or u2: the positive number whose square is u; *)
(* sqrt(u2) = (u2 / PHI) * sqrt(u1) because u1 * u2 = PHI^2             *)
LSqrt(u) ==
  LET c == IF u = u1 THEN KNum(QInt(1)) ELSE KMul(KNum(QInv(PHI)), u)
  IN  CHOOSE r \in {<<KNum(QInt(0)), c>>, <<KNum(QInt(0)), KNeg(c)>>} :
        LMul(r, r) = <<u, KNum(QInt(0))>> /\ LSign(r) > 0

(* sorted(xs) *)
LSorted(xs) ==
  LET perm == CHOOSE t \in [DOMAIN xs -> DOMAIN xs] :
                /\ \A i, j \in DOMAIN xs : i # j => t[i] # t[j]
                /\ \A i \in DOMAIN xs :
                     i + 1 \in DOMAIN xs =>
                       LSign(LAdd(xs[t[i + 1]], LNeg(xs[t[i]]))) >= 0
  IN  [i \in DOMAIN xs |-> xs[perm[i]]]

(* mutant: 2 + sqrt(u2) written twice *)
H4EigenvaluesSignSlip ==
  LSorted(<<LAdd(LNum(QInt(2)), LNeg(LSqrt(u1))),
            LAdd(LNum(QInt(2)), LSqrt(u2)),
            LAdd(LNum(QInt(2)), LSqrt(u2)),
            LAdd(LNum(QInt(2)), LSqrt(u1))>>)

h4_eigenvalues ==
  LSorted(<<LAdd(LNum(QInt(2)), LNeg(LSqrt(u1))),
            LAdd(LNum(QInt(2)), LNeg(LSqrt(u2))),
            LAdd(LNum(QInt(2)), LSqrt(u2)),
            LAdd(LNum(QInt(2)), LSqrt(u1))>>)

(* ---------------- calls of the algebra functions ---------------- *)

AlgebraFunctions ==
  {"compute_cartan_determinants", "compute_gram_determinants",
   "verify_determinant_pattern", "h4_eigenvalues", "proof_i_cartan",
   "proof_ii_gram", "proof_iii_prism"}

Return(f) ==
  CASE f = "compute_cartan_determinants" -> compute_cartan_determinants
    [] f = "compute_gram_determinants" -> compute_gram_determinants
    [] f = "verify_determinant_pattern" -> verify_determinant_pattern
    [] f = "h4_eigenvalues" -> h4_eigenvalues
    [] f = "proof_i_cartan" -> proof_i_cartan
    [] f = "proof_ii_gram" -> proof_ii_gram
    [] f = "proof_iii_prism" -> proof_iii_prism

AlgebraInit ==
  /\ calls = <<>>
  /\ ChshIdle
  /\ TestsIdle
  /\ MatchIdle
  /\ ScanIdle
  /\ E8Idle
  /\ CellIdle
  /\ RestIdle

(* a function not yet called is called and its value kept *)
Call(f) ==
  /\ f \notin DOMAIN calls
  /\ calls' = [g \in DOMAIN calls \cup {f} |->
                 IF g = f THEN Return(f) ELSE calls[g]]
  /\ UNCHANGED notCalls

AlgebraNext == \E f \in AlgebraFunctions : Call(f)

SpecAlgebra == AlgebraInit /\ [][AlgebraNext]_vars

(* ---------------- golden_hunter.py: is_golden_integer ---------------- *)

phi == QDiv(QAdd(QInt(1), SQRT5), QInt(2))

(* range(lo, hi) as the sequence of its values *)
Range(lo, hi) == [i \in 1..(hi - lo) |-> lo + i - 1]

(* for u in us: for v in vs: the pairs <<u, v>> in iteration order *)
Nested(us, vs) ==
  [i \in 1..(Len(us) * Len(vs)) |->
     <<us[((i - 1) \div Len(vs)) + 1], vs[((i - 1) % Len(vs)) + 1]>>]

(* floor, from 2.236 < sqrt5 < 2.237 and an exact comparison *)
QFloor(q) ==
  LET est == (1000 * q[1] + 2236 * q[2]) \div (1000 * q[3])
      K   == Abs(q[2]) \div (1000 * q[3]) + 2
  IN  IF q[2] = 0 THEN q[1] \div q[3]
      ELSE CHOOSE n \in (est - K)..(est + K) :
             /\ QSign(QSub(q, QInt(n))) >= 0
             /\ QSign(QSub(q, QInt(n + 1))) < 0

(* mpmath nint: the nearest integer, a tie going to the even one *)
nint(q) ==
  LET f == QFloor(q)
      h == QSign(QSub(QSub(q, QInt(f)), QRat(1, 2)))
  IN  IF h < 0 THEN f
      ELSE IF h > 0 THEN f + 1
      ELSE IF f % 2 = 0 THEN f ELSE f + 1

(* mutant: <= in place of < *)
TolLe(q, tol) ==
  LET a == q[1]
      b == q[2]
      d == q[3]
      tn == tol[1]
      td == tol[3]
      g == GCD(d, td)
      H == Abs(a) + 3 * Abs(b)
  IN  IF a = 0 /\ b = 0 THEN tn >= 0
      ELSE IF QLt(tol, QRat(1, 10)) /\ QGe(q, QRat(1, 10)) THEN FALSE
      ELSE IF b = 0
        THEN IF tn = 1 THEN td <= d \div a ELSE a * td <= tn * d
      ELSE IF H <= td \div (tn * d) THEN FALSE
      ELSE QSign(<<a * (td \div g) - tn * (d \div g), b * (td \div g), 1>>) <= 0

(* q < tol for q >= 0 and a rational tol > 0.  A q >= 1/10 >= tol is not; *)
(* a rational q is compared by division when tol = 1/td; an irrational q *)
(* exceeds 1/(d*(|a| + 3|b|)), which settles it when that is >= tol, and  *)
(* is otherwise compared by the sign of q - tol                           *)
TolLt(q, tol) ==
  LET a == q[1]
      b == q[2]
      d == q[3]
      tn == tol[1]
      td == tol[3]
      g == GCD(d, td)
      H == Abs(a) + 3 * Abs(b)
  IN  IF a = 0 /\ b = 0 THEN tn > 0
      ELSE IF QLe(tol, QRat(1, 10)) /\ QGe(q, QRat(1, 10)) THEN FALSE
      ELSE IF b = 0
        THEN IF tn = 1 THEN td <= (d - 1) \div a ELSE a * td < tn * d
      ELSE IF H <= td \div (tn * d) THEN FALSE
      ELSE QSign(<<a * (td \div g) - tn * (d \div g), b * (td \div g), 1>>) < 0

(* abs(x - v) < tolerance *)
Near(xv, v, tol) == TolLt(QAbs(QSub(xv, v)), tol)

(* floor(pi^n * PiScale), n = 1..6 *)
PiScale == 100000

PiPowFloor == <<314159, 986960, 3100627, 9740909, 30601968, 96138919>>

(* abs(x - k * pi**n) < tolerance, decided from the enclosure of pi^n; a *)
(* value more than 1 away is told apart by the integer parts alone       *)
NearPi(xv, k, n, tol) ==
  LET fl  == (k * PiPowFloor[n]) \div PiScale
      fx  == QFloor(xv)
      lo  == QRat(k * PiPowFloor[n], PiScale)
      hi  == QRat(k * (PiPowFloor[n] + 1), PiScale)
      dlo == QSub(xv, hi)
      dhi == QSub(xv, lo)
  IN  IF QLe(tol, QInt(1)) /\ (fx >= fl + 3 \/ fx <= fl - 2) THEN FALSE
      ELSE IF QSign(dlo) >= 0
        THEN IF TolLt(dhi, tol) THEN TRUE
             ELSE IF ~TolLt(dlo, tol) THEN FALSE ELSE Undefined
      ELSE IF QSign(dhi) <= 0
        THEN IF TolLt(QNeg(dlo), tol) THEN TRUE
             ELSE IF ~TolLt(QNeg(dhi), tol) THEN FALSE ELSE Undefined
      ELSE IF TolLt(dhi, tol) /\ TolLt(QNeg(dlo), tol) THEN TRUE
      ELSE Undefined

(* a catalog entry is <<kind, label, value>>; the value of a π-power is <<k, n>> *)
NearEntry(xv, e, tol) ==
  IF e[1] = "π-power" THEN NearPi(xv, e[3][1], e[3][2], tol)
  ELSE Near(xv, e[3], tol)

FractionLabel(n, m) == ToString(n) \o "/" \o ToString(m)

PhiPowerLabel(k) == "φ^" \o ToString(k)

LucasLabel(n) == "L_" \o ToString(n)

LucasSqLabel(n) == "L_" \o ToString(n) \o "²"

PiPowerLabel(k, n) == ToString(k) \o "π^" \o ToString(n)

CompoundLabel(a, b) == "φ^" \o ToString(a) \o " + φ^" \o ToString(b)

(* line 40-41 *)
IntegerEntry(xv) == <<"Integer", nint(xv), QInt(nint(xv))>>

(* mutant: range(1, 20) *)
FractionRangeShort == Range(1, 20)

(* line 44-45: range(1, 21) *)
FractionRange == Range(1, 21)

FractionCatalog ==
  LET ps == Nested(FractionRange, FractionRange)
  IN  [i \in 1..Len(ps) |->
        <<"Fraction", FractionLabel(ps[i][1], ps[i][2]), QRat(ps[i][1], ps[i][2])>>]

(* mutant: range(-15, 15) *)
PhiPowerRangeShort == Range(-15, 15)

(* line 50: range(-15, 16) *)
PhiPowerRange == Range(-15, 16)

PhiPowerCatalog ==
  [i \in 1..Len(PhiPowerRange) |->
     <<"φ-power", PhiPowerLabel(PhiPowerRange[i]), QPow(phi, PhiPowerRange[i])>>]

(* line 56: L_n = phi**n + phi**(-n) *)
L_n(n) == QAdd(QPow(phi, n), QPow(phi, -n))

(* line 55: range(0, 12) *)
LucasRange == Range(0, 12)

LucasCatalog ==
  [i \in 1..(2 * Len(LucasRange)) |->
     LET n == LucasRange[(i + 1) \div 2]
     IN  IF i % 2 = 1 THEN <<"Lucas", LucasLabel(n), L_n(n)>>
         ELSE <<"Lucas²", LucasSqLabel(n), QPow(L_n(n), 2)>>]

(* mutant: range(1, 6) for the exponent of pi *)
PiPowerPairsShort == Nested(Range(1, 10), Range(1, 6))

(* lines 63-64: range(1, 10), range(1, 7) *)
PiPowerPairs == Nested(Range(1, 10), Range(1, 7))

PiPowerCatalog ==
  [i \in 1..Len(PiPowerPairs) |->
     <<"π-power", PiPowerLabel(PiPowerPairs[i][1], PiPowerPairs[i][2]), PiPowerPairs[i]>>]

(* lines 69-71: range(-5, 12), range(-15, 6), a != b *)
CompoundPairs ==
  SelectSeq(Nested(Range(-5, 12), Range(-15, 6)), LAMBDA p : p[1] # p[2])

CompoundCatalog ==
  [i \in 1..Len(CompoundPairs) |->
     <<"φ-compound", CompoundLabel(CompoundPairs[i][1], CompoundPairs[i][2]),
       QAdd(QPow(phi, CompoundPairs[i][1]), QPow(phi, CompoundPairs[i][2]))>>]

(* one loop of the function: the <<kind, label>> of the entries within the *)
(* tolerance, in the order the loop visits them                           *)
Matches(xv, tol, catalog) ==
  LET hit == SelectSeq(catalog, LAMBDA e : NearEntry(xv, e, tol))
  IN  [i \in 1..Len(hit) |-> <<hit[i][1], hit[i][2]>>]

(* the inputs of the calls checked *)
MaxTolDigits == 3

MaxShift == 4

Tolerances ==
  {<<1, 0, Pow10(e)>> : e \in 2..MaxTolDigits} \cup {<<1, 0, Pow10(9)>>}

Inputs(tol) ==
  {QPow(phi, k) : k \in -15..15}
  \cup {SQRT5, QRat(3, 4), QRat(5, 2), QInt(9), QInt(47), QInt(199), QInt(39605),
        QRat(157, 50), QRat(22, 7), QRat(2827, 100), QRat(96139, 100),
        QRat(1000, 7)}
  \cup (IF tol[3] > Pow10(MaxTolDigits) THEN {}
        ELSE {QAdd(QPow(phi, 3), QMul(QRat(j, 2), tol)) : j \in 1..MaxShift})

MatchInit ==
  /\ mpc = "call"
  /\ tolerance \in Tolerances
  /\ x \in Inputs(tolerance)
  /\ candidates = <<>>
  /\ returned = <<>>
  /\ mp_dps = 50
  /\ ChshIdle
  /\ TestsIdle
  /\ ScanIdle
  /\ E8Idle
  /\ CellIdle
  /\ RestIdle

(* mutant: the list of the previous call is used again *)
StaleList == candidates

(* line 37: candidates = [] *)
EmptyList == <<>>

MatchEnter ==
  /\ mpc = "call"
  /\ candidates' = EmptyList
  /\ mpc' = "integer"
  /\ UNCHANGED <<x, tolerance, returned, mp_dps>>
  /\ UNCHANGED notMatch

(* the loop at position at, then on to position next *)
MatchLoop(at, catalog, next) ==
  /\ mpc = at
  /\ candidates' = candidates \o Matches(x, tolerance, catalog)
  /\ mpc' = next
  /\ UNCHANGED <<x, tolerance, returned, mp_dps>>
  /\ UNCHANGED notMatch

(* lines 40-41 *)
MatchInteger == MatchLoop("integer", <<IntegerEntry(x)>>, "fraction")

(* lines 44-47 *)
MatchFractions == MatchLoop("fraction", FractionCatalog, "phi-power")

(* lines 50-52 *)
MatchPhiPowers == MatchLoop("phi-power", PhiPowerCatalog, "lucas")

(* lines 55-60 *)
MatchLucas == MatchLoop("lucas", LucasCatalog, "pi-power")

(* lines 63-66 *)
MatchPiPowers == MatchLoop("pi-power", PiPowerCatalog, "phi-compound")

(* lines 69-74 *)
MatchCompound == MatchLoop("phi-compound", CompoundCatalog, "return")

(* line 76; the caller then calls once more with the same arguments *)
MatchReturn ==
  /\ mpc = "return"
  /\ returned' = Append(returned, candidates)
  /\ mpc' = IF Len(returned) = 0 THEN "call" ELSE "done"
  /\ UNCHANGED <<x, tolerance, candidates, mp_dps>>
  /\ UNCHANGED notMatch

MatchNext ==
  \/ MatchEnter
  \/ MatchInteger
  \/ MatchFractions
  \/ MatchPhiPowers
  \/ MatchLucas
  \/ MatchPiPowers
  \/ MatchCompound
  \/ MatchReturn

SpecMatcher == MatchInit /\ [][MatchNext]_vars

(* ---------------- uniqueness_scan ---------------- *)

MaxHeights == 5

(* line 465: h_sq = 0.01 + 4.0 * i / (n_heights - 1) *)
HeightSq(i, n) == QAdd(QRat(1, 100), QDiv(QInt(4 * i), QInt(n - 1)))

(* mutant: z = +-h, the division by R forgotten *)
ScanVerticesTall(h_sq) ==
  LET h == Sqrt(h_sq)
      R == Sqrt(QAdd(QInt(1), h_sq))
  IN  [n \in 1..10 |->
        LET k == (n - 1) \div 2
        IN  <<RDiv(Cos5(k), R), RDiv(Sin5(k), R),
              IF n % 2 = 1 THEN h ELSE RNeg(h)>>]

(* lines 466-476: the prism of height^2 h_sq, built as in pentagonal_prism_vertices *)
ScanVertices(h_sq) == PrismVertices(h_sq)

(* mutant: the first correlator added instead of subtracted *)
RowBestAllPlus(vs, a, b) ==
  LET D == [p \in 1..10 |-> [q \in 1..10 |-> dot(vs[p], vs[q])]]
      S(ap, ib1, ibp1) ==
        QAdd(QAdd(QAdd(D[a][ib1], D[a][ibp1]), D[ap][ib1]), D[ap][ibp1])
      U == {QAbs(S(t[1], t[2], t[3])) :
              t \in {u \in ((1..10) \ {a}) \X (1..10) \X (1..10) : u[2] # u[3]}}
      top == CHOOSE m \in U \cup {b} : \A o \in U \cup {b} : QLe(o, m)
  IN  top

(* lines 480-492 for one ia: the largest |S| over iap # ia, ib, ibp # ib, *)
(* starting from b                                                        *)
RowBest(vs, a, b) ==
  LET D == [p \in 1..10 |-> [q \in 1..10 |-> dot(vs[p], vs[q])]]
      S(ap, ib1, ibp1) ==
        QAdd(QAdd(QAdd(QNeg(D[a][ib1]), D[a][ibp1]), D[ap][ib1]), D[ap][ibp1])
      U == {QAbs(S(t[1], t[2], t[3])) :
              t \in {u \in ((1..10) \ {a}) \X (1..10) \X (1..10) : u[2] # u[3]}}
      top == CHOOSE m \in U \cup {b} : \A o \in U \cup {b} : QLe(o, m)
  IN  top

ScanInit ==
  /\ scan_pc = "call"
  /\ n_heights \in 0..MaxHeights
  /\ scan_i = 0
  /\ scan_verts = <<>>
  /\ scan_ia = 0
  /\ scan_best = QInt(0)
  /\ results = <<>>
  /\ scan_result = None
  /\ calls = <<>>
  /\ ChshIdle
  /\ TestsIdle
  /\ MatchIdle
  /\ E8Idle
  /\ CellIdle
  /\ RestIdle

(* lines 464-467, 478 and 507: the next height, or the end of the loop; *)
(* the division by n_heights - 1 = 0 raises                             *)
ScanHeight ==
  /\ scan_pc = "call" \/ scan_pc = "height"
  /\ IF scan_i >= n_heights
       THEN /\ scan_pc' = "closest"
            /\ UNCHANGED <<scan_verts, scan_ia, scan_best, scan_result>>
       ELSE IF n_heights - 1 = 0
         THEN /\ scan_pc' = "raised"
              /\ scan_result' = "ZeroDivisionError"
              /\ UNCHANGED <<scan_verts, scan_ia, scan_best>>
         ELSE /\ scan_verts' = ScanVertices(HeightSq(scan_i, n_heights))
              /\ scan_best' = QInt(0)
              /\ scan_ia' = 0
              /\ scan_pc' = "row"
              /\ UNCHANGED scan_result
  /\ UNCHANGED <<n_heights, scan_i, results>>
  /\ UNCHANGED notScan

(* lines 479-492: one turn of the loop over ia *)
ScanRow ==
  /\ scan_pc = "row"
  /\ scan_ia < 10
  /\ scan_best' = RowBest(scan_verts, scan_ia + 1, scan_best)
  /\ scan_ia' = scan_ia + 1
  /\ UNCHANGED <<scan_pc, n_heights, scan_i, scan_verts, results, scan_result>>
  /\ UNCHANGED notScan

(* line 494 *)
ScanAppend ==
  /\ scan_pc = "row"
  /\ scan_ia = 10
  /\ results' = Append(results,
                  [h_squared |-> HeightSq(scan_i, n_heights), S_max |-> scan_best])
  /\ scan_i' = scan_i + 1
  /\ scan_pc' = "height"
  /\ UNCHANGED <<n_heights, scan_verts, scan_ia, scan_best, scan_result>>
  /\ UNCHANGED notScan

(* mutant: 3 / 2 * PHI *)
TargetHeightSqSlip == QMul(QDiv(QInt(3), QInt(2)), PHI)

(* line 497 *)
target_h_sq == QDiv(QInt(3), QMul(QInt(2), PHI))

(* line 498: min(results, key = |h_squared - target|), the first of the least *)
Closest(rs) ==
  LET key(r) == QAbs(QSub(r.h_squared, target_h_sq))
      idx == CHOOSE j \in 1..Len(rs) :
               /\ \A m \in 1..Len(rs) : QLe(key(rs[j]), key(rs[m]))
               /\ \A m \in 1..(j - 1) : QLt(key(rs[j]), key(rs[m]))
  IN  rs[idx]

(* lines 501-502: results[i].S_max >= results[i + 1].S_max - 1e-6 for all i *)
IsDecreasing(rs) ==
  \A j \in 1..(Len(rs) - 1) : ~GtTol(QSub(rs[j + 1].S_max, rs[j].S_max), 6)

(* lines 497-510; min() of an empty list raises *)
ScanReturn ==
  /\ scan_pc = "closest"
  /\ IF Len(results) = 0
       THEN /\ scan_pc' = "raised"
            /\ scan_result' = "ValueError"
       ELSE /\ scan_pc' = "done"
            /\ scan_result' =
                 [n_heights |-> n_heights,
                  S_max_at_small_h |-> results[1].S_max,
                  S_max_at_large_h |-> results[Len(results)].S_max,
                  closest_to_target |-> Closest(results),
                  target_h_squared |-> target_h_sq,
                  is_monotonically_decreasing |-> IsDecreasing(results)]
  /\ UNCHANGED <<n_heights, scan_i, scan_verts, scan_ia, scan_best, results>>
  /\ UNCHANGED notScan

ScanNext ==
  \/ ScanHeight
  \/ ScanRow
  \/ ScanAppend
  \/ ScanReturn

SpecScan == ScanInit /\ [][ScanNext]_vars

(* ---------------- gsm_calculator.py: E8Lattice ---------------- *)

(* itertools.combinations(range(8), 2) *)
Combinations2 ==
  SelectSeq(Nested(Range(0, 8), Range(0, 8)), LAMBDA p : p[1] < p[2])

(* mutant: the mixed signs left out *)
SignProductShort == <<<<1, 1>>, <<-1, -1>>>>

(* itertools.product([1, -1], repeat=2) *)
SignProduct == Nested(<<1, -1>>, <<1, -1>>)

(* for positions in combinations(...): for signs in product(...) *)
Type1Iterations == Nested(Combinations2, SignProduct)

(* np.zeros(8) with root[positions[0]] and then root[positions[1]] assigned; *)
(* index p of Python is entry p + 1                                          *)
Type1Root(positions, signs) ==
  [j \in 1..8 |-> IF j = positions[2] + 1 THEN QInt(signs[2])
                  ELSE IF j = positions[1] + 1 THEN QInt(signs[1])
                  ELSE QInt(0)]

(* (i >> j) & 1 *)
Bit(i, j) == (i \div (2 ^ j)) % 2

(* signs = [(i >> j) & 1 for j in range(8)] *)
SignBits(i) == [j \in 1..8 |-> Bit(i, j - 1)]

RECURSIVE SeqSum(_)
SeqSum(s) == IF s = <<>> THEN 0 ELSE s[1] + SeqSum(Tail(s))

Type2Root(signs) ==
  [j \in 1..8 |-> IF signs[j] = 0 THEN QRat(1, 2) ELSE QRat(-1, 2)]

(* E8Lattice(): __init__ enters _generate_roots *)
E8Init ==
  /\ e8_pc = "type1"
  /\ e8_k = 1
  /\ roots = <<>>
  /\ self_roots = None
  /\ calls = <<>>
  /\ ChshIdle
  /\ TestsIdle
  /\ MatchIdle
  /\ ScanIdle
  /\ CellIdle
  /\ RestIdle

(* lines 523-528: one iteration of the type 1 loops; after the last one *)
(* the type 2 loop starts at i = 0                                      *)
E8Type1 ==
  /\ e8_pc = "type1"
  /\ e8_k <= Len(Type1Iterations)
  /\ roots' = Append(roots, Type1Root(Type1Iterations[e8_k][1],
                                      Type1Iterations[e8_k][2]))
  /\ IF e8_k = Len(Type1Iterations)
       THEN e8_pc' = "type2" /\ e8_k' = 0
       ELSE e8_pc' = "type1" /\ e8_k' = e8_k + 1
  /\ UNCHANGED <<self_roots, notE8>>

(* lines 531-535: an i whose bits have an even sum appends a root *)
E8Type2Append ==
  /\ e8_pc = "type2"
  /\ e8_k < 256
  /\ SeqSum(SignBits(e8_k)) % 2 = 0
  /\ roots' = Append(roots, Type2Root(SignBits(e8_k)))
  /\ e8_k' = e8_k + 1
  /\ UNCHANGED <<e8_pc, self_roots, notE8>>

(* lines 531-533: an i whose bits have an odd sum appends nothing *)
E8Type2Skip ==
  /\ e8_pc = "type2"
  /\ e8_k < 256
  /\ SeqSum(SignBits(e8_k)) % 2 # 0
  /\ e8_k' = e8_k + 1
  /\ UNCHANGED <<e8_pc, roots, self_roots, notE8>>

(* lines 537 and 515: return np.array(roots), assigned to self.roots *)
E8Return ==
  /\ e8_pc = "type2"
  /\ e8_k = 256
  /\ self_roots' = roots
  /\ e8_pc' = "done"
  /\ UNCHANGED <<e8_k, roots, notE8>>

(* the property num_roots, once self.roots is assigned *)
num_roots == Len(self_roots)

E8Next ==
  \/ E8Type1
  \/ E8Type2Append
  \/ E8Type2Skip
  \/ E8Return

SpecE8 == E8Init /\ [][E8Next]_vars

(* ---------------- gsm_wave_600cell.py: build_600cell_vertices ---------------- *)

PHI_INV == QInv(PHI)

(* for i in range(4): for sign in [1, -1] *)
CellType1Iterations == Nested(Range(0, 4), <<1, -1>>)

(* np.zeros(4) with v[i] = sign *)
CellType1(i, sign) == [j \in 1..4 |-> IF j = i + 1 THEN QInt(sign) ELSE QInt(0)]

(* the four nested loops over [0.5, -0.5], s0 outermost: iteration k of 16 *)
CellType2(k) ==
  [j \in 1..4 |-> IF Bit(k, 4 - j) = 0 THEN QRat(1, 2) ELSE QRat(-1, 2)]

base_values ==
  <<QDiv(PHI, QInt(2)), QRat(1, 2), QDiv(PHI_INV, QInt(2)), QInt(0)>>

(* mutant: the last permutation is the first one again *)
EvenPermsRepeated ==
  << <<0, 1, 2, 3>>, <<0, 2, 3, 1>>, <<0, 3, 1, 2>>,
     <<1, 0, 3, 2>>, <<1, 2, 0, 3>>, <<1, 3, 2, 0>>,
     <<2, 0, 1, 3>>, <<2, 1, 3, 0>>, <<2, 3, 0, 1>>,
     <<3, 0, 2, 1>>, <<3, 1, 0, 2>>, <<0, 1, 2, 3>> >>

even_perms ==
  << <<0, 1, 2, 3>>, <<0, 2, 3, 1>>, <<0, 3, 1, 2>>,
     <<1, 0, 3, 2>>, <<1, 2, 0, 3>>, <<1, 3, 2, 0>>,
     <<2, 0, 1, 3>>, <<2, 1, 3, 0>>, <<2, 3, 0, 1>>,
     <<3, 0, 2, 1>>, <<3, 1, 0, 2>>, <<3, 2, 1, 0>> >>

(* base = [base_values[perm[i]] for i in range(4)] *)
Base(perm) == [i \in 1..4 |-> base_values[perm[i] + 1]]

(* nonzero_idx = [i for i in range(4) if base[i] != 0], as entries 1..4 *)
NonzeroIdx(base) == SelectSeq(<<1, 2, 3, 4>>, LAMBDA i : base[i] # QInt(0))

(* for perm in even_perms: for signs in range(2**n_nonzero) *)
CellType3Iterations ==
  SelectSeq(Nested(even_perms, Range(0, 16)),
            LAMBDA it : it[2] < 2 ^ Len(NonzeroIdx(Base(it[1]))))

(* base.copy() with v[idx] negated for every set bit of signs *)
CellType3(perm, signs) ==
  LET base == Base(perm)
      nz == NonzeroIdx(base)
  IN  [i \in 1..4 |->
        IF \E bit \in 1..Len(nz) : nz[bit] = i /\ Bit(signs, bit - 1) = 1
          THEN QNeg(base[i]) ELSE base[i]]

(* np.linalg.norm(v - u) < 1e-10, as the squared norm against 10^-20 *)
NormSq(v, u) ==
  LET d(j) == QSub(v[j], u[j])
  IN  QAdd(QAdd(QMul(d(1), d(1)), QMul(d(2), d(2))),
           QAdd(QMul(d(3), d(3)), QMul(d(4), d(4))))

IsDup(v, us) == \E n \in 1..Len(us) : LtTol(NormSq(v, us[n]), 20)

CellInit ==
  /\ cell_pc = "type1"
  /\ cell_k = 1
  /\ vertices = <<>>
  /\ unique = <<>>
  /\ warned = FALSE
  /\ cell_result = None
  /\ calls = <<>>
  /\ ChshIdle
  /\ TestsIdle
  /\ MatchIdle
  /\ ScanIdle
  /\ E8Idle
  /\ RestIdle

(* lines 39-43: one iteration of the type 1 loops *)
CellAppend1 ==
  /\ cell_pc = "type1"
  /\ vertices' = Append(vertices, CellType1(CellType1Iterations[cell_k][1],
                                            CellType1Iterations[cell_k][2]))
  /\ IF cell_k = Len(CellType1Iterations)
       THEN cell_pc' = "type2" /\ cell_k' = 0
       ELSE cell_pc' = "type1" /\ cell_k' = cell_k + 1
  /\ UNCHANGED <<unique, warned, cell_result, notCell>>

(* lines 46-50: one iteration of the type 2 loops *)
CellAppend2 ==
  /\ cell_pc = "type2"
  /\ vertices' = Append(vertices, CellType2(cell_k))
  /\ IF cell_k = 15
       THEN cell_pc' = "type3" /\ cell_k' = 1
       ELSE cell_pc' = "type2" /\ cell_k' = cell_k + 1
  /\ UNCHANGED <<unique, warned, cell_result, notCell>>

(* lines 62-72: one iteration of the type 3 loops *)
CellAppend3 ==
  /\ cell_pc = "type3"
  /\ vertices' = Append(vertices, CellType3(CellType3Iterations[cell_k][1],
                                            CellType3Iterations[cell_k][2]))
  /\ IF cell_k = Len(CellType3Iterations)
       THEN cell_pc' = "unique" /\ cell_k' = 0
       ELSE cell_pc' = "type3" /\ cell_k' = cell_k + 1
  /\ UNCHANGED <<unique, warned, cell_result, notCell>>

(* line 77: unique = [vertices[0]] *)
CellUnique ==
  /\ cell_pc = "unique"
  /\ unique' = <<vertices[1]>>
  /\ cell_pc' = "dedup"
  /\ cell_k' = 2
  /\ UNCHANGED <<vertices, warned, cell_result, notCell>>

(* lines 78-85: one v of vertices[1:], appended unless some u is within 1e-10 *)
CellDedup ==
  /\ cell_pc = "dedup"
  /\ cell_k <= Len(vertices)
  /\ unique' = IF IsDup(vertices[cell_k], unique) THEN unique
               ELSE Append(unique, vertices[cell_k])
  /\ cell_k' = cell_k + 1
  /\ UNCHANGED <<cell_pc, vertices, warned, cell_result, notCell>>

(* lines 87-95: vertices = np.array(unique); the warning and the cut to *)
(* 120 rows when the count is not 120; return                           *)
CellReturn ==
  /\ cell_pc = "dedup"
  /\ cell_k > Len(vertices)
  /\ warned' = (Len(unique) # 120)
  /\ vertices' = IF Len(unique) > 120 THEN SubSeq(unique, 1, 120) ELSE unique
  /\ cell_result' = vertices'
  /\ cell_pc' = "done"
  /\ UNCHANGED <<cell_k, unique, notCell>>

CellNext ==
  \/ CellAppend1
  \/ CellAppend2
  \/ CellAppend3
  \/ CellUnique
  \/ CellDedup
  \/ CellReturn

SpecCell == CellInit /\ [][CellNext]_vars

(* ---------------- casimir_uniqueness_test.py ---------------- *)

(* mutant: 6 in place of the degree 2 *)
CasimirDegreesSix == <<6, 8, 12, 14, 18, 20, 24, 30>>

E8_CASIMIR_DEGREES == <<2, 8, 12, 14, 18, 20, 24, 30>>

PRIMARY_DERIVATIVES ==
  [i \in 1..Len(E8_CASIMIR_DEGREES) |-> E8_CASIMIR_DEGREES[i] - 1]

(* set(s) *)
SetOf(s) == {s[i] : i \in 1..Len(s)}

(* sorted(S) of a set of integers *)
SortedSet(S) ==
  [i \in 1..Cardinality(S) |->
     CHOOSE e \in S : Cardinality({y \in S : y < e}) = i - 1]

ANCHOR == 137

MAX_TERMS == 4

(* ALPHA_INV_EXP = 137.035999084: its excess over ANCHOR in units of 10^-9, *)
(* the unit in which values and errors are enclosed below                   *)
AlphaExcessNano == 35999084

(* error_ppm < 10 is |value - ALPHA_INV_EXP| < 1370359.99084 units *)
TenPpmNano == 1370359

(* floor(10^9 * phi ** (-e)) for e = 1..30 *)
PhiNegNano ==
  <<618033988, 381966011, 236067977, 145898033, 90169943, 55728090,
    34441853, 21286236, 13155617, 8130618, 5024998, 3105620, 1919378,
    1186241, 733137, 453103, 280033, 173070, 106963, 66106, 40856, 25250,
    15605, 9644, 5960, 3684, 2276, 1407, 869, 537>>

(* the Fibonacci numbers F_0 .. F_31, for the exact value                 *)
(* phi ** (-e) = (-1)^e (F_(e+1) - F_e phi) kept as the pair of the       *)
(* coefficients of 1 and phi                                              *)
RECURSIVE FibUpTo(_)
FibUpTo(n) ==
  IF n = 1 THEN <<0, 1>>
  ELSE LET f == FibUpTo(n - 1)
       IN  Append(f, f[n] + f[n - 1])

FibTable == FibUpTo(31)

PhiNegExact(e) ==
  IF e % 2 = 0 THEN <<FibTable[e + 2], -FibTable[e + 1]>>
  ELSE <<-FibTable[e + 2], FibTable[e + 1]>>

(* the j-th of the k signs of the s-th tuple of product([1, -1], repeat=k) *)
SignOf(s, j, k) == IF Bit(s, k - j) = 0 THEN 1 ELSE -1

(* value = ANCHOR + sum of sign * phi ** (-exp), less phi ** (-t) / 248    *)
(* when t # 0: the formula evaluated, with value - ANCHOR enclosed in      *)
(* lo..hi units and 248 * (value - ANCHOR) exactly as exact[1] + exact[2]  *)
(* phi                                                                     *)
Evaluate(exps, s, t) ==
  LET k == Len(exps)
      sg(j) == SignOf(s, j, k)
  IN  [exps |-> exps,
       signs |-> [j \in 1..k |-> sg(j)],
       torsion |-> t,
       lo |-> SeqSum([j \in 1..k |->
                        IF sg(j) = 1 THEN PhiNegNano[exps[j]]
                        ELSE -(PhiNegNano[exps[j]] + 1)])
              - (IF t = 0 THEN 0 ELSE ((PhiNegNano[t] + 1) \div 248) + 1),
       hi |-> SeqSum([j \in 1..k |->
                        IF sg(j) = 1 THEN PhiNegNano[exps[j]] + 1
                        ELSE -PhiNegNano[exps[j]]])
              - (IF t = 0 THEN 0 ELSE PhiNegNano[t] \div 248),
       exact |->
         <<SeqSum([j \in 1..k |-> 248 * sg(j) * PhiNegExact(exps[j])[1]])
             - (IF t = 0 THEN 0 ELSE PhiNegExact(t)[1]),
           SeqSum([j \in 1..k |-> 248 * sg(j) * PhiNegExact(exps[j])[2]])
             - (IF t = 0 THEN 0 ELSE PhiNegExact(t)[2])>>]

(* bounds of abs(value - ALPHA_INV_EXP) in units *)
ErrLo(r) ==
  IF r.lo >= AlphaExcessNano THEN r.lo - AlphaExcessNano
  ELSE IF r.hi <= AlphaExcessNano THEN AlphaExcessNano - r.hi
  ELSE 0

ErrHi(r) ==
  IF r.lo >= AlphaExcessNano THEN r.hi - AlphaExcessNano
  ELSE IF r.hi <= AlphaExcessNano THEN AlphaExcessNano - r.lo
  ELSE IF AlphaExcessNano - r.lo > r.hi - AlphaExcessNano
    THEN AlphaExcessNano - r.lo
  ELSE r.hi - AlphaExcessNano

(* if error_ppm < 10 *)
Kept(r) ==
  IF ErrHi(r) <= TenPpmNano THEN TRUE
  ELSE IF ErrLo(r) > TenPpmNano THEN FALSE
  ELSE Undefined

(* the key of results.sort: error_ppm of a against that of b; equal values *)
(* have equal errors, and "unknown" is an order the enclosures do not      *)
(* settle                                                                  *)
ErrCmp(a, b) ==
  IF a.exact = b.exact THEN "eq"
  ELSE IF ErrHi(a) < ErrLo(b) THEN "lt"
  ELSE IF ErrLo(a) > ErrHi(b) THEN "gt"
  ELSE "unknown"

(* the formula string built at lines 140-142 and 158-161, the superscript *)
(* minus of the source written ^-                                        *)
RECURSIVE FormulaTerms(_, _)
FormulaTerms(r, j) ==
  IF j > Len(r.exps) THEN ""
  ELSE (IF r.signs[j] > 0 THEN " + " ELSE " - ") \o "φ^-"
         \o ToString(r.exps[j]) \o FormulaTerms(r, j + 1)

Formula(r) ==
  ToString(ANCHOR) \o FormulaTerms(r, 1)
    \o (IF r.torsion = 0 THEN ""
        ELSE " - φ^-" \o ToString(r.torsion) \o "/248")

(* combinations(SEARCH_EXPONENTS, k) as increasing index tuples: the first *)
(* one, and the one after c (<<>> after the last)                         *)
FirstCombo(k) == [j \in 1..k |-> j]

NextCombo(c, n) ==
  LET k == Len(c)
      movable == {i \in 1..k : c[i] < n - (k - i)}
  IN  IF movable = {} THEN <<>>
      ELSE LET i == CHOOSE m \in movable : \A o \in movable : o <= m
           IN  [j \in 1..k |-> IF j < i THEN c[j] ELSE c[i] + 1 + (j - i)]

(* the entries one exp_combo is tried with, in the order of the loops:     *)
(* every sign tuple, under every torsion_exp of torsions (<<0>>: no        *)
(* torsion term)                                                           *)
Tried(exps, torsions) ==
  LET m == 2 ^ Len(exps)
  IN  [i \in 1..(Len(torsions) * m) |->
         Evaluate(exps, (i - 1) % m, torsions[((i - 1) \div m) + 1])]

(* results after the entries tried are appended where kept: the new length *)
(* and the entry a stable sort by error puts first, which changes only to  *)
(* an entry whose error is below that of the present first one             *)
Appended(tried, len, first) ==
  LET kept == {i \in 1..Len(tried) : Kept(tried[i])}
      rivals == IF first = None THEN kept
                ELSE {i \in kept : ErrCmp(tried[i], first) \notin {"gt", "eq"}}
      lead == CHOOSE i \in rivals :
                \A j \in rivals \ {i} :
                  \/ ErrCmp(tried[i], tried[j]) = "lt"
                  \/ i < j /\ ErrCmp(tried[i], tried[j]) = "eq"
  IN  IF rivals = {} THEN <<len + Cardinality(kept), first>>
      ELSE IF first # None
              /\ \E i \in rivals : ErrCmp(tried[i], first) = "unknown"
        THEN Undefined
      ELSE <<len + Cardinality(kept), tried[lead]>>

CasInit ==
  /\ cas_pc = "products"
  /\ cas_k = 1
  /\ CASIMIR_PRODUCTS = {}
  /\ VALID_EXPONENTS = <<>>
  /\ exponent5 = None
  /\ SEARCH_EXPONENTS = <<>>
  /\ num_terms = 0
  /\ exp_combo = <<>>
  /\ n_results = 0
  /\ first_result = None
  /\ best_valid = None
  /\ CoreIdle
  /\ PartyIdle
  /\ FibIdle
  /\ HuntIdle

(* lines 33-37: one (d1, d2) of the two loops over the degrees *)
CasProduct ==
  /\ cas_pc = "products"
  /\ LET n == Len(E8_CASIMIR_DEGREES)
         d1 == E8_CASIMIR_DEGREES[((cas_k - 1) \div n) + 1]
         d2 == E8_CASIMIR_DEGREES[((cas_k - 1) % n) + 1]
     IN  /\ CASIMIR_PRODUCTS' = IF d1 + d2 <= 40
                                  THEN CASIMIR_PRODUCTS \cup {d1 + d2}
                                  ELSE CASIMIR_PRODUCTS
         /\ IF cas_k = n * n
              THEN cas_pc' = "valid" /\ cas_k' = 0
              ELSE cas_pc' = "products" /\ cas_k' = cas_k + 1
  /\ UNCHANGED <<VALID_EXPONENTS, exponent5, SEARCH_EXPONENTS, num_terms,
                 exp_combo, n_results, first_result, best_valid, notCas>>

(* line 40 *)
CasValid ==
  /\ cas_pc = "valid"
  /\ VALID_EXPONENTS' = SortedSet(SetOf(E8_CASIMIR_DEGREES)
                                    \cup SetOf(PRIMARY_DERIVATIVES)
                                    \cup CASIMIR_PRODUCTS)
  /\ cas_pc' = "check5"
  /\ UNCHANGED <<cas_k, CASIMIR_PRODUCTS, exponent5, SEARCH_EXPONENTS,
                 num_terms, exp_combo, n_results, first_result, best_valid,
                 notCas>>

(* lines 94-99: which of the two conclusions about exponent 5 is printed *)
CasCheck5 ==
  /\ cas_pc = "check5"
  /\ exponent5' = IF 5 \notin SetOf(VALID_EXPONENTS) THEN "VIOLATES"
                  ELSE "valid"
  /\ cas_pc' = "setup"
  /\ UNCHANGED <<cas_k, CASIMIR_PRODUCTS, VALID_EXPONENTS, SEARCH_EXPONENTS,
                 num_terms, exp_combo, n_results, first_result, best_valid,
                 notCas>>

(* lines 113-129: results = [], SEARCH_EXPONENTS, and the first exp_combo *)
(* of num_terms = 2                                                       *)
CasSetup ==
  /\ cas_pc = "setup"
  /\ SEARCH_EXPONENTS' = SelectSeq(VALID_EXPONENTS,
                                   LAMBDA e : 1 <= e /\ e <= 30)
  /\ num_terms' = 2
  /\ exp_combo' = FirstCombo(2)
  /\ n_results' = 0
  /\ first_result' = None
  /\ cas_pc' = "search"
  /\ UNCHANGED <<cas_k, CASIMIR_PRODUCTS, VALID_EXPONENTS, exponent5,
                 best_valid, notCas>>

(* the exponents of exp_combo *)
ExpsOf(c, exponents) == [j \in 1..Len(c) |-> exponents[c[j]]]

(* lines 129-143: one exp_combo of the search without torsion, with all  *)
(* its sign tuples; then the next exp_combo, the next num_terms, or the  *)
(* search with torsion from num_terms = 1                                *)
CasSearch ==
  /\ cas_pc = "search"
  /\ LET after == Appended(Tried(ExpsOf(exp_combo, SEARCH_EXPONENTS), <<0>>),
                           n_results, first_result)
         next == NextCombo(exp_combo, Len(SEARCH_EXPONENTS))
     IN  /\ n_results' = after[1]
         /\ first_result' = after[2]
         /\ IF next # <<>>
              THEN /\ exp_combo' = next
                   /\ UNCHANGED <<num_terms, cas_pc>>
            ELSE IF num_terms < MAX_TERMS
              THEN /\ num_terms' = num_terms + 1
                   /\ exp_combo' = FirstCombo(num_terms + 1)
                   /\ UNCHANGED cas_pc
            ELSE /\ num_terms' = 1
                 /\ exp_combo' = FirstCombo(1)
                 /\ cas_pc' = "torsion"
  /\ UNCHANGED <<cas_k, CASIMIR_PRODUCTS, VALID_EXPONENTS, exponent5,
                 SEARCH_EXPONENTS, best_valid, notCas>>

(* lines 146-162: one exp_combo of the search with torsion, with every *)
(* torsion_exp and all its sign tuples                                 *)
CasTorsion ==
  /\ cas_pc = "torsion"
  /\ LET after == Appended(Tried(ExpsOf(exp_combo, SEARCH_EXPONENTS),
                                 SEARCH_EXPONENTS),
                           n_results, first_result)
         next == NextCombo(exp_combo, Len(SEARCH_EXPONENTS))
     IN  /\ n_results' = after[1]
         /\ first_result' = after[2]
         /\ IF next # <<>>
              THEN /\ exp_combo' = next
                   /\ UNCHANGED <<num_terms, cas_pc>>
            ELSE IF num_terms + 1 < MAX_TERMS
              THEN /\ num_terms' = num_terms + 1
                   /\ exp_combo' = FirstCombo(num_terms + 1)
                   /\ UNCHANGED cas_pc
            ELSE /\ cas_pc' = "sort"
                 /\ UNCHANGED <<num_terms, exp_combo>>
  /\ UNCHANGED <<cas_k, CASIMIR_PRODUCTS, VALID_EXPONENTS, exponent5,
                 SEARCH_EXPONENTS, best_valid, notCas>>

(* lines 165 and 209: results.sort(key = error); best_valid = results[0] *)
(* if results else None                                                  *)
CasBestValid ==
  /\ cas_pc = "sort"
  /\ best_valid' = IF n_results > 0 THEN first_result ELSE None
  /\ cas_pc' = "done"
  /\ UNCHANGED <<cas_k, CASIMIR_PRODUCTS, VALID_EXPONENTS, exponent5,
                 SEARCH_EXPONENTS, num_terms, exp_combo, n_results,
                 first_result, notCas>>

CasNext ==
  \/ CasProduct
  \/ CasValid
  \/ CasCheck5
  \/ CasSetup
  \/ CasSearch
  \/ CasTorsion
  \/ CasBestValid

SpecCasimir == CasInit /\ [][CasNext]_vars

(* ---------------- gsm_multiparty_bounds.py ---------------- *)

MaxParties == 2050

(* the outcome of a call: an exception raised or a value returned *)
Raises(e) == [raised |-> e]

Returns(v) == [returned |-> v]

Raised(o) == "raised" \in DOMAIN o

(* a float that is a power is kept by an enclosure <<lo, hi>> of its base-2 *)
(* logarithm, in units of 1/2000; a float is finite below 2^1024 and is     *)
(* rounded to 0.0 below 2^-1075                                             *)
Float(lo, hi) == [kind |-> "float", lo |-> lo, hi |-> hi]

Zero == [kind |-> "zero"]

(* 2 ** (m / 2): float pow raises OverflowError from 2^1024 on *)
PowTwoHalf(m) ==
  IF m >= 2 * 1024 THEN Raises("OverflowError")
  ELSE Returns(Float(1000 * m, 1000 * m))

(* lines 83-104 *)
standard_qm_mermin_bound(n) ==
  IF n < 2 THEN Raises("ValueError")
  ELSE IF n = 2
    THEN Returns([kind |-> "r", value |-> RScale(QInt(2), Sqrt(QInt(2)))])
  ELSE PowTwoHalf(n)

(* lines 165-166: GSM_SUPPRESSION ** (n / 2), where GSM_SUPPRESSION =   *)
(* (4 - PHI) / (2 * math.sqrt(2)) of line 30 lies between 2^-0.248 and  *)
(* 2^-0.247; a power below the float range is rounded to 0.0            *)
gsm_suppression_factor(n) ==
  LET lo == IF n >= 0 THEN -248 * n ELSE -247 * n
      hi == IF n >= 0 THEN -247 * n ELSE -248 * n
  IN  IF lo >= 2 * 1024 * 1000 THEN Raises("OverflowError")
      ELSE IF hi < -(2 * 1075 * 1000) THEN Returns(Zero)
      ELSE IF lo < -(2 * 1075 * 1000) \/ hi >= 2 * 1024 * 1000 THEN Undefined
      ELSE Returns(Float(lo, hi))

(* qm_bound * suppression of two finite floats, the first not below 1 and *)
(* the second not above 1                                                 *)
FloatMul(u, v) ==
  IF v = Zero THEN Zero
  ELSE IF u.hi + v.hi < -(2 * 1075 * 1000) THEN Zero
  ELSE IF u.lo + v.lo < -(2 * 1075 * 1000) THEN Undefined
  ELSE Float(u.lo + v.lo, u.hi + v.hi)

(* lines 169-190 *)
gsm_mermin_bound(n) ==
  LET qm_bound == standard_qm_mermin_bound(n)
      suppression == gsm_suppression_factor(n)
  IN  IF n = 2 THEN Returns([kind |-> "q", value |-> QSub(QInt(4), PHI)])
      ELSE IF Raised(qm_bound) THEN qm_bound
      ELSE IF Raised(suppression) THEN suppression
      ELSE Returns(FloatMul(qm_bound.returned, suppression.returned))

(* lines 217-237 *)
gsm_svetlichny_bound(n) ==
  LET qm_bound == PowTwoHalf(n + 1)
      suppression == gsm_suppression_factor(n)
  IN  IF n < 3 THEN Raises("ValueError")
      ELSE IF Raised(qm_bound) THEN qm_bound
      ELSE IF Raised(suppression) THEN suppression
      ELSE Returns(FloatMul(qm_bound.returned, suppression.returned))

(* lines 244-250: sorted([2 - PHI, 3 - PHI, 1 + PHI, 2 + PHI]) *)
multiparty_h4_eigenvalues ==
  LSorted(<<LNum(QSub(QInt(2), PHI)), LNum(QSub(QInt(3), PHI)),
            LNum(QAdd(QInt(1), PHI)), LNum(QAdd(QInt(2), PHI))>>)

PartyFunctions ==
  {"standard_qm_mermin_bound", "gsm_mermin_bound", "gsm_svetlichny_bound",
   "h4_eigenvalues"}

PartyInit ==
  /\ party_pc = "call"
  /\ party_fn \in PartyFunctions
  /\ party_n \in IF party_fn = "h4_eigenvalues" THEN {0} ELSE (-3)..MaxParties
  /\ party_out = None
  /\ CoreIdle
  /\ CasIdle
  /\ FibIdle
  /\ HuntIdle

(* one call of f with the argument party_n *)
PartyCall(f, o) ==
  /\ party_pc = "call"
  /\ party_fn = f
  /\ party_out' = o
  /\ party_pc' = IF Raised(o) THEN "raised" ELSE "done"
  /\ UNCHANGED <<party_fn, party_n>>
  /\ UNCHANGED notParty

PartyStandard ==
  PartyCall("standard_qm_mermin_bound", standard_qm_mermin_bound(party_n))

PartyGsm == PartyCall("gsm_mermin_bound", gsm_mermin_bound(party_n))

PartySvetlichny ==
  PartyCall("gsm_svetlichny_bound", gsm_svetlichny_bound(party_n))

PartyEigenvalues ==
  PartyCall("h4_eigenvalues", Returns(multiparty_h4_eigenvalues))

PartyNext ==
  \/ PartyStandard
  \/ PartyGsm
  \/ PartySvetlichny
  \/ PartyEigenvalues

SpecParty == PartyInit /\ [][PartyNext]_vars

(* ---------------- gsm_calculator.py: fibonacci_number ---------------- *)

MaxFib == 20

(* mutant: range(n) *)
FibIterationsFull(n) == n

(* line 66: range(n - 1) *)
FibIterations(n) == n - 1

FibInit ==
  /\ fib_pc = "call"
  /\ fib_n \in (-MaxFib)..MaxFib
  /\ fib_i = 0
  /\ fib_a = 0
  /\ fib_b = 0
  /\ fib_out = None
  /\ CoreIdle
  /\ CasIdle
  /\ PartyIdle
  /\ HuntIdle

(* lines 60-65 *)
FibEnter ==
  /\ fib_pc = "call"
  /\ IF fib_n <= 0
       THEN /\ fib_out' = 0
            /\ fib_pc' = "done"
            /\ UNCHANGED <<fib_a, fib_b>>
       ELSE IF fib_n = 1
         THEN /\ fib_out' = 1
              /\ fib_pc' = "done"
              /\ UNCHANGED <<fib_a, fib_b>>
         ELSE /\ fib_a' = 0
              /\ fib_b' = 1
              /\ fib_pc' = "loop"
              /\ UNCHANGED fib_out
  /\ UNCHANGED <<fib_n, fib_i>>
  /\ UNCHANGED notFib

(* lines 66-67: a, b = b, a + b *)
FibStep ==
  /\ fib_pc = "loop"
  /\ fib_i < FibIterations(fib_n)
  /\ fib_a' = fib_b
  /\ fib_b' = fib_a + fib_b
  /\ fib_i' = fib_i + 1
  /\ UNCHANGED <<fib_pc, fib_n, fib_out>>
  /\ UNCHANGED notFib

(* line 68: return b *)
FibReturn ==
  /\ fib_pc = "loop"
  /\ fib_i >= FibIterations(fib_n)
  /\ fib_out' = fib_b
  /\ fib_pc' = "done"
  /\ UNCHANGED <<fib_n, fib_i, fib_a, fib_b>>
  /\ UNCHANGED notFib

FibNext == FibEnter \/ FibStep \/ FibReturn

SpecFib == FibInit /\ [][FibNext]_vars

(* ---------------- golden_hunter.py: golden_hunter ---------------- *)

IMO == 7

K_VALUES == <<1, 2, 3, 4, 5>>

N_RANGE == Range(0, 51)

SPIN_FERMION == QRat(1, 4)

SPIN_BOSON == QRat(-1, 4)

(* floor(10^7 * phi^(-n + 1/4)), n = 0..50 *)
PhiQuarterUp ==
  <<11278384, 6970425, 4307959, 2662465, 1645494, 1016971, 628522, 388448,
    240074, 148374, 91700, 56673, 35026, 21647, 13378, 8268, 5110, 3158, 1951,
    1206, 745, 460, 284, 176, 108, 67, 41, 25, 15, 9, 6, 3, 2, 1, 0, 0, 0, 0,
    0, 0, 0, 0, 0, 0, 0, 0, 0, 0, 0, 0, 0>>

(* floor(10^7 * phi^(-n - 1/4)), n = 0..50 *)
PhiQuarterDown ==
  <<8866517, 5479809, 3386708, 2093100, 1293607, 799493, 494114, 305379,
    188734, 116644, 72090, 44554, 27536, 17018, 10517, 6500, 4017, 2482, 1534,
    948, 586, 362, 223, 138, 85, 52, 32, 20, 12, 7, 4, 2, 1, 1, 0, 0, 0, 0, 0,
    0, 0, 0, 0, 0, 0, 0, 0, 0, 0, 0, 0>>

(* coeff * phi**exp = (IMO / k) * phi^(-n + q/4), q = 1 or -1, is not in  *)
(* Q(sqrt5): it is kept as the symbol <<k, n, q>>, with the enclosure     *)
(* <<lo, hi>> of its value in units of 10^-7                              *)
Magnitude(sym) ==
  LET t == IF sym[3] = 1 THEN PhiQuarterUp[sym[2] + 1]
           ELSE PhiQuarterDown[sym[2] + 1]
  IN  <<(IMO * t) \div sym[1], (IMO * (t + 1) + sym[1] - 1) \div sym[1]>>

(* the numbers r + c * m, r and c rational and m one such symbol, are kept *)
(* as <<r, c, m>>, m = None when c = 0                                     *)
HNum(r) == <<r, QInt(0), None>>

HTerm(c, sym) == <<QInt(0), c, sym>>

HAdd(u, v) ==
  LET c == QAdd(u[2], v[2])
  IN  IF u[3] # None /\ v[3] # None /\ u[3] # v[3] THEN Undefined
      ELSE <<QAdd(u[1], v[1]), c,
             IF c = QInt(0) THEN None ELSE IF u[3] = None THEN v[3] ELSE u[3]>>

HNeg(u) == <<QNeg(u[1]), QNeg(u[2]), u[3]>>

HSub(u, v) == HAdd(u, HNeg(v))

HScale(u, r) == <<QMul(u[1], r), QMul(u[2], r), u[3]>>

(* rational bounds <<lo, hi>> of such a number, multiples of 10^-5 unless *)
(* the number is rational                                                 *)
HBounds(u) ==
  LET mag == Magnitude(u[3])
      r7 == u[1][1] * (10000000 \div u[1][3])
      c == u[2][1]
      a == r7 + (IF c > 0 THEN c * mag[1] ELSE c * mag[2])
      b == r7 + (IF c > 0 THEN c * mag[2] ELSE c * mag[1])
  IN  IF u[3] = None THEN <<u[1], u[1]>>
      ELSE IF u[1][2] # 0 \/ 10000000 % u[1][3] # 0 \/ u[2][2] # 0 \/ u[2][3] # 1
        THEN Undefined
      ELSE <<QRat(a \div 100, 100000), QRat(-((-b) \div 100), 100000)>>

HSign(u) ==
  LET e == HBounds(u)
  IN  IF e[1] = e[2] THEN QSign(e[1])
      ELSE IF QSign(e[1]) > 0 THEN 1
      ELSE IF QSign(e[2]) < 0 THEN -1
      ELSE Undefined

HAbs(u) == IF HSign(u) < 0 THEN HNeg(u) ELSE u

(* the catalog of is_golden_integer after the integer, in the order of its *)
(* loops, and floor(100 * value) of each entry                             *)
GoldenCatalog ==
  FractionCatalog \o PhiPowerCatalog \o LucasCatalog \o PiPowerCatalog
    \o CompoundCatalog

Hundredths(e) ==
  IF e[1] = "π-power" THEN (e[3][1] * PiPowFloor[e[3][2]]) \div 1000
  ELSE QFloor(QMul(e[3], QInt(100)))

HundredthsOf(catalog) == [i \in DOMAIN catalog |-> Hundredths(catalog[i])]

GoldenHundredths == HundredthsOf(GoldenCatalog)

(* the entries of the catalog whose hundredths are within 2 of h *)
Picked(catalog, idx) == [j \in DOMAIN idx |-> catalog[idx[j]]]

CloseEntries(h, catalog, hundredths) ==
  Picked(catalog, SelectSeq([i \in DOMAIN catalog |-> i],
                            LAMBDA i : Abs(hundredths[i] - h) <= 2))

(* is_golden_integer(xv, tol) as a function, for tol <= 0.01: an entry *)
(* whose hundredths differ from those of xv by more than 2 is not      *)
(* within 0.01 of xv and is told apart by that alone                   *)
is_golden_integer(xv, tol) ==
  IF QGt(tol, QRat(1, 100)) THEN Undefined
  ELSE Matches(xv, tol,
               <<IntegerEntry(xv)>>
                 \o CloseEntries(QFloor(QMul(xv, QInt(100))), GoldenCatalog,
                                 GoldenHundredths))

(* line 157: is_golden_integer(omega, tolerance=0.01), decided when both *)
(* bounds of omega give the same list                                    *)
Agreed(lists) == IF lists[1] = lists[2] THEN lists[1] ELSE Undefined

AtBounds(e) == [b \in 1..2 |-> is_golden_integer(e[b], QRat(1, 100))]

Candidates(omega) == Agreed(AtBounds(HBounds(omega)))

(* str(float(spin)) *)
FloatStr(r) ==
  IF r = QRat(1, 4) THEN "0.25" ELSE IF r = QRat(-1, 4) THEN "-0.25" ELSE Undefined

(* lines 78-127: the i-th element of generate_t_corrections(s), i = 1..1020 *)
Correction(s, i) ==
  LET kk == K_VALUES[((i - 1) \div (4 * Len(N_RANGE))) + 1]
      nn == N_RANGE[(((i - 1) % (4 * Len(N_RANGE))) \div 4) + 1]
      v == (i - 1) % 4
      q == s[1] * (4 \div s[3])
      exp_plus == QAdd(QInt(-nn), s)
      exp_minus == QSub(QInt(-nn), s)
      sgn == IF v % 2 = 0 THEN "+" ELSE "-"
      head == sgn \o "(" \o ToString(IMO) \o "/" \o ToString(kk) \o ")·φ^("
                \o ToString(-nn)
  IN  [value |-> HTerm(QInt(IF v % 2 = 0 THEN 1 ELSE -1),
                       <<kk, nn, IF v < 2 THEN q ELSE -q>>),
       sign |-> sgn,
       k |-> kk,
       n |-> nn,
       exp |-> IF v < 2 THEN exp_plus ELSE exp_minus,
       formula |->
         IF v < 2
         THEN head \o (IF QSign(s) > 0 THEN "+" ELSE "") \o FloatStr(s) \o ")"
         ELSE head \o (IF QSign(s) > 0 THEN "-" ELSE "") \o FloatStr(QAbs(s)) \o ")"]

(* mutant: float(omega), the correction not added back *)
ReconstructedSeedOnly(omega, value) == omega

(* line 167: float(omega + corr['value']) *)
Reconstructed(omega, value) == HAdd(omega, value)

(* line 168 *)
ErrorPpm(rec, ev) ==
  HScale(HAbs(HSub(rec, HNum(ev))), QDiv(QInt(1000000), ev))

(* lines 161-172: the dictionary appended for one candidate *)
MatchRecord(ev, corr, cand, omega, rec) ==
  [omega |-> omega,
   omega_type |-> cand[1],
   omega_formula |-> cand[2],
   t_correction |-> corr.formula,
   t_value |-> corr.value,
   reconstructed |-> rec,
   error_ppm |-> ErrorPpm(rec, ev),
   k |-> corr.k,
   n |-> corr.n,
   exp |-> corr.exp]

MatchFor(ev, corr, cand, omega) ==
  MatchRecord(ev, corr, cand, omega, Reconstructed(omega, corr.value))

(* mutant: only the first candidate is recorded *)
EntriesFirstOnly(ev, corr, cands) ==
  [c \in 1..1 |-> MatchFor(ev, corr, cands[c], HSub(HNum(ev), corr.value))]

(* lines 159-172: one dictionary for each candidate *)
Entries(ev, corr, cands) ==
  [c \in 1..Len(cands) |-> MatchFor(ev, corr, cands[c], HSub(HNum(ev), corr.value))]

(* line 159: if candidates *)
Extended(ms, ev, corr, cands) ==
  IF cands # <<>> THEN ms \o Entries(ev, corr, cands) ELSE ms

(* lines 154-157: omega and its candidates *)
HuntOne(ms, ev, corr) ==
  Extended(ms, ev, corr, Candidates(HSub(HNum(ev), corr.value)))

(* line 175: sort(key = error_ppm), a stable sort *)
SortedByError(ms) ==
  LET cmp(i, j) == HSign(HSub(ms[i].error_ppm, ms[j].error_ppm))
      rank(i) == Cardinality({j \in DOMAIN ms :
                                cmp(j, i) < 0 \/ (cmp(j, i) = 0 /\ j < i)}) + 1
  IN  [r \in DOMAIN ms |-> ms[CHOOSE i \in DOMAIN ms : rank(i) = r]]

(* the experimental values of lines 225 and 244 *)
HuntInputs == {QRat(16817, 1000), QRat(1183, 100)}

HuntInit ==
  /\ hunt_pc = "call"
  /\ exp_value \in HuntInputs
  /\ spin \in {SPIN_FERMION, SPIN_BOSON}
  /\ hunt_i = 0
  /\ best_matches = <<>>
  /\ hunt_out = None
  /\ CoreIdle
  /\ CasIdle
  /\ PartyIdle
  /\ FibIdle

(* lines 149-150: corrections = generate_t_corrections(spin) *)
HuntStart ==
  /\ hunt_pc = "call"
  /\ hunt_pc' = "loop"
  /\ hunt_i' = 1
  /\ best_matches' = <<>>
  /\ UNCHANGED <<exp_value, spin, hunt_out>>
  /\ UNCHANGED notHunt

(* lines 152-172: one correction *)
HuntCorrection ==
  /\ hunt_pc = "loop"
  /\ hunt_i <= 4 * Len(K_VALUES) * Len(N_RANGE)
  /\ best_matches' = HuntOne(best_matches, exp_value, Correction(spin, hunt_i))
  /\ hunt_i' = hunt_i + 1
  /\ UNCHANGED <<hunt_pc, exp_value, spin, hunt_out>>
  /\ UNCHANGED notHunt

(* lines 175-187 *)
HuntReturn ==
  /\ hunt_pc = "loop"
  /\ hunt_i > 4 * Len(K_VALUES) * Len(N_RANGE)
  /\ best_matches' = SortedByError(best_matches)
  /\ hunt_out' = best_matches'
  /\ hunt_pc' = "done"
  /\ UNCHANGED <<exp_value, spin, hunt_i>>
  /\ UNCHANGED notHunt

HuntNext == HuntStart \/ HuntCorrection \/ HuntReturn

SpecHunter == HuntInit /\ [][HuntNext]_vars

(* ---------------- claims on is_golden_integer ---------------- *)

(* the list the latest completed call returned, as a set *)
Returned == {returned[Len(returned)][i] : i \in 1..Len(returned[Len(returned)])}

(* a call has just returned its list *)
JustReturned == Len(returned) >= 1 /\ mpc \in {"call", "done"}

ClaimCatalogFixed ==
  {<<"Fraction", FractionLabel(n, m), QRat(n, m)>> : n \in 1..20, m \in 1..20}
  \cup {<<"φ-power", PhiPowerLabel(k), QPow(phi, k)>> : k \in -15..15}
  \cup {<<"Lucas", LucasLabel(n), QAdd(QPow(phi, n), QPow(phi, -n))>> : n \in 0..11}
  \cup {<<"Lucas²", LucasSqLabel(n), QPow(QAdd(QPow(phi, n), QPow(phi, -n)), 2)>> :
          n \in 0..11}
  \cup {<<"π-power", PiPowerLabel(k, n), <<k, n>>>> : k \in 1..9, n \in 1..6}
  \cup {<<"φ-compound", CompoundLabel(p[1], p[2]),
          QAdd(QPow(phi, p[1]), QPow(phi, p[2]))>> :
          p \in {q \in (-5..11) \X (-15..5) : q[1] # q[2]}}

ClaimCatalog(xv) == {IntegerEntry(xv)} \cup ClaimCatalogFixed

(* C4: is_golden_integer(x, tolerance) returns a candidate if and only if its *)
(* catalog value v satisfies |x - v| < tolerance, over exactly the catalog:  *)
(* the nearest integer; n/m for n, m in 1..20; phi^k for k in -15..15; L_n   *)
(* and L_n^2 for n in 0..11; k*pi^n for k in 1..9, n in 1..6; phi^a + phi^b  *)
(* for a in -5..11, b in -15..5, a # b.  Nothing outside the tolerance is    *)
(* returned and nothing inside it is omitted.                                *)
C4_CatalogWithinTolerance ==
  JustReturned =>
    Returned = {<<e[1], e[2]>> :
                  e \in {c \in ClaimCatalog(x) : NearEntry(x, c, tolerance)}}

(* the call for 961.39, within 1e-2 of pi^6 alone, has returned that candidate *)
C4_Witness ==
  /\ Len(returned) >= 1
  /\ x = QRat(96139, 100)
  /\ tolerance = <<1, 0, 100>>
  /\ Returned = {<<"π-power", "1π^6">>}

(* C5: for every exponent k in -15..15 and every tolerance > 0,             *)
(* is_golden_integer(phi^k, tolerance) includes ("φ-power", "φ^k").          *)
C5_PhiPowerFound ==
  Len(returned) >= 1 =>
    \A k \in -15..15 :
      x = QPow(phi, k) => <<"φ-power", PhiPowerLabel(k)>> \in Returned

(* the call for phi^15 at tolerance 1e-9 has returned its candidate *)
C5_Witness ==
  /\ Len(returned) >= 1
  /\ x = QPow(phi, 15)
  /\ tolerance = <<1, 0, Pow10(9)>>
  /\ <<"φ-power", "φ^15">> \in Returned

(* C6: the acceptance test is a strict absolute-distance bound: for         *)
(* x = phi^3 + 2*tolerance the φ-power candidate of exponent 3 is not in the *)
(* result, for x = phi^3 + 0.5*tolerance it is, and a value at distance      *)
(* exactly the tolerance is rejected.                                        *)
C6_StrictBound ==
  LET p3  == QPow(phi, 3)
      c3  == <<"φ-power", "φ^3">>
      at(n, d) == QAdd(p3, QMul(QRat(n, d), tolerance))
  IN  (Len(returned) >= 1 /\ tolerance[3] <= Pow10(MaxTolDigits)) =>
        /\ x = at(2, 1) => c3 \notin Returned
        /\ x = at(1, 2) => c3 \in Returned
        /\ x = at(1, 1) => c3 \notin Returned
        /\ c3 \in Returned <=> QLt(QAbs(QSub(x, p3)), tolerance)

(* the call at distance exactly the tolerance has returned without phi^3 *)
C6_Witness ==
  /\ Len(returned) >= 1
  /\ tolerance = <<1, 0, 100>>
  /\ x = QAdd(QPow(phi, 3), tolerance)
  /\ <<"φ-power", "φ^3">> \notin Returned
  /\ Returned # {}

FractionLabels == {c[2] : c \in {r \in Returned : r[1] = "Fraction"}}

ThreeQuartersCall ==
  /\ Len(returned) >= 1
  /\ x = QRat(3, 4)
  /\ tolerance = <<1, 0, Pow10(9)>>

(* C7 as stated: is_golden_integer(0.75, 1e-9) reports the Fraction "3/4"   *)
(* and no other Fraction candidate.                                          *)
C7_OnlyThreeQuarters == ThreeQuartersCall => FractionLabels = {"3/4"}

(* C7, amended: is_golden_integer(0.75, 1e-9) reports the Fraction "3/4"    *)
(* together with every equal fraction of the grid n, m in 1..20: the        *)
(* Fraction labels are exactly 3/4, 6/8, 9/12, 12/16 and 15/20.              *)
C7_FractionEquivalents ==
  ThreeQuartersCall => FractionLabels = {"3/4", "6/8", "9/12", "12/16", "15/20"}

(* the call for 0.75 has returned, "15/20" among its candidates *)
C7_Witness == ThreeQuartersCall /\ <<"Fraction", "15/20">> \in Returned

(* C8: is_golden_integer is pure and deterministic: two calls with the same *)
(* x and tolerance return the same list in the same order, a call changes   *)
(* no state outside its own result list, and the result is the empty list   *)
(* when no catalog value lies within the tolerance.                          *)
C8_PureDeterministic ==
  /\ [](/\ Len(returned) = 2 => returned[1] = returned[2]
        /\ (JustReturned
            /\ \A c \in ClaimCatalog(x) : ~NearEntry(x, c, tolerance))
           => returned[Len(returned)] = <<>>)
  /\ [][/\ x' = x
        /\ tolerance' = tolerance
        /\ mp_dps' = mp_dps
        /\ UNCHANGED notMatch
        /\ \A i \in 1..Len(returned) : returned'[i] = returned[i]]_vars

(* both calls have returned, a non-empty list of several candidates each time *)
C8_Witness ==
  /\ Len(returned) = 2
  /\ mpc = "done"
  /\ Len(returned[2]) >= 3
  /\ returned[1] = returned[2]

(* C11: the Lucas value used by the matcher, L_n = phi^n + phi^-n, is        *)
(* integer-valued for every n in 0..11, so each Lucas and Lucas-squared      *)
(* candidate that is_golden_integer returns denotes an integer.              *)
C11_LucasIntegerValued ==
  JustReturned =>
    \A i \in 1..Len(LucasCatalog) :
      <<LucasCatalog[i][1], LucasCatalog[i][2]>> \in Returned =>
        LucasCatalog[i][3][2] = 0 /\ LucasCatalog[i][3][3] = 1

(* ---------------- claims on uniqueness_scan ---------------- *)

(* C9: over the grid h^2_i = 0.01 + 4.0*i/(n_heights - 1), i = 0..n_heights-1, *)
(* the maximum |S| over the distinct-index quadruples is non-increasing in i: *)
(* S_max(h^2_i) >= S_max(h^2_{i+1}) - 1e-6 for every consecutive pair, and     *)
(* is_monotonically_decreasing is True.                                       *)
C9_ScanNonIncreasing ==
  scan_pc = "done" =>
    /\ Len(results) = n_heights
    /\ \A j \in 1..n_heights :
         results[j].h_squared =
           QAdd(QRat(1, 100), QRat(4 * (j - 1), n_heights - 1))
    /\ \A j \in 1..(n_heights - 1) :
         \/ QGe(results[j].S_max, results[j + 1].S_max)
         \/ ~GtTol(QSub(results[j + 1].S_max, results[j].S_max), 6)
    /\ scan_result.is_monotonically_decreasing = TRUE

(* a scan of at least three heights has returned, its maxima falling *)
C9_Witness ==
  /\ scan_pc = "done"
  /\ n_heights >= 3
  /\ Len(results) = n_heights
  /\ QGt(results[1].S_max, results[2].S_max)
  /\ QGt(results[2].S_max, results[3].S_max)
  /\ scan_result.is_monotonically_decreasing

(* C12: the combinatorial search has no failure mode: brute_force_chsh, for *)
(* either value of require_distinct, and uniqueness_scan(n_heights), for    *)
(* every n_heights >= 1, never raise and return a complete result record.   *)
C12_NoFailureMode ==
  /\ pc = "done" =>
       DOMAIN result = {"max_S", "target", "matches", "optimal_quadruples",
                        "exceeds_bound", "total_quadruples", "best_quad_indices",
                        "relative_error"}
  /\ n_heights >= 1 => scan_pc # "raised"
  /\ scan_pc = "done" =>
       DOMAIN scan_result = {"n_heights", "S_max_at_small_h", "S_max_at_large_h",
                             "closest_to_target", "target_h_squared",
                             "is_monotonically_decreasing"}

(* the square of the normaliser R a vertex list was divided by, read off *)
(* its first vertex, whose z is h / R                                      *)
UsedRSq(vs, h_sq) == QDiv(h_sq, QMul(QMul(vs[1][3][1], vs[1][3][1]), vs[1][3][2]))

(* C13: in pentagonal_prism_vertices and in every iteration of             *)
(* uniqueness_scan the normaliser R = sqrt(1 + h^2) by which coordinates   *)
(* are divided is never zero or near zero: R >= 1 for every height used.   *)
C13_NormaliserAtLeastOne ==
  /\ scan_pc = "row" =>
       QGe(UsedRSq(scan_verts, HeightSq(scan_i, n_heights)), QInt(1))
  /\ tverts # <<>> => QGe(UsedRSq(tverts, PrismHeightSq), QInt(1))

(* the scan is at its lowest height, 0.01, where R^2 = 1.01 *)
C13_Witness ==
  /\ scan_pc = "row"
  /\ scan_i = 0
  /\ n_heights >= 2
  /\ UsedRSq(scan_verts, HeightSq(scan_i, n_heights)) = QRat(101, 100)

(* C14: S_max(h^2) is strictly decreasing over the scanned heights, with   *)
(* S_max > 4 - phi at every scanned h^2 below 3/(2*phi) and S_max < 4 - phi *)
(* at every scanned h^2 above it; no scanned height other than one at       *)
(* 3/(2*phi) gives S_max = 4 - phi.                                         *)
C14_UniqueOptimum ==
  scan_pc = "done" =>
    /\ \A j \in 1..(Len(results) - 1) :
         QGt(results[j].S_max, results[j + 1].S_max)
    /\ \A j \in 1..Len(results) :
         /\ QLt(results[j].h_squared, scan_result.target_h_squared)
              => QGt(results[j].S_max, GSM_BOUND)
         /\ QGt(results[j].h_squared, scan_result.target_h_squared)
              => QLt(results[j].S_max, GSM_BOUND)
         /\ results[j].S_max = GSM_BOUND
              => results[j].h_squared = scan_result.target_h_squared

(* a returned scan with heights on both sides of 3/(2*phi) *)
C14_Witness ==
  /\ scan_pc = "done"
  /\ \E j \in 1..Len(results) :
       /\ QLt(results[j].h_squared, scan_result.target_h_squared)
       /\ QGt(results[j].S_max, GSM_BOUND)
  /\ \E j \in 1..Len(results) :
       /\ QGt(results[j].h_squared, scan_result.target_h_squared)
       /\ QLt(results[j].S_max, GSM_BOUND)

(* ---------------- claims on brute_force_chsh ---------------- *)

Indices == 0..9

DistinctQuads ==
  {q \in Indices \X Indices \X Indices \X Indices : q[1] # q[2] /\ q[3] # q[4]}

AbsSAt(q) ==
  QAbs(ChshS(verts[q[1] + 1], verts[q[2] + 1], verts[q[3] + 1], verts[q[4] + 1]))

(* C1: brute_force_chsh(require_distinct=True) returns max_S equal to 4 - phi *)
(* (matches is true, relative tolerance 1e-10) and exceeds_bound = 0: some    *)
(* quadruple with a # a' and b # b' attains |S| = 4 - phi and none has        *)
(* |S| > 4 - phi + 1e-10.                                                     *)
C1_MaxIsGsmBound ==
  (pc = "done" /\ require_distinct) =>
    /\ result.matches
    /\ IsClose(result.max_S, QSub(QInt(4), PHI), 10)
    /\ result.exceeds_bound = 0
    /\ \E q \in DistinctQuads : IsClose(AbsSAt(q), QSub(QInt(4), PHI), 10)
    /\ \A q \in DistinctQuads : ~GtTol(QSub(AbsSAt(q), QSub(QInt(4), PHI)), 10)

C1_Witness ==
  /\ pc = "done" /\ require_distinct
  /\ result.total_quadruples = 8100
  /\ result.max_S = QSub(QInt(4), PHI)
  /\ result.optimal_quadruples > 0

(* the number of quadruples the loops have passed before position <<a,p,b,q>> *)
TestedBefore(distinct, a, p, b, q) ==
  IF distinct
  THEN a * 810 + (IF p > a THEN p - 1 ELSE p) * 90
       + b * 9 + (IF q > b THEN q - 1 ELSE q)
  ELSE a * 1000 + p * 100 + b * 10 + q

(* C2: every index quadruple is evaluated exactly once: at every point of the *)
(* loops total is the number of admissible quadruples before the current     *)
(* position, so total_quadruples is 8100 = 10*9*10*9 (exactly the quadruples *)
(* with ia # iap and ib # ibp) when require_distinct, and 10000 otherwise.   *)
C2_TotalQuadruples ==
  /\ pc \in {"loop", "return", "done"} =>
       total = TestedBefore(require_distinct, ia, iap, ib, ibp)
  /\ pc = "done" =>
       /\ result.total_quadruples = IF require_distinct THEN 8100 ELSE 10000
       /\ require_distinct => result.total_quadruples = Cardinality(DistinctQuads)

C2_Witness ==
  /\ pc = "done" /\ ~require_distinct
  /\ result.total_quadruples = 10000

(* ---------------- claims on the prism and the identities ---------------- *)

PrismTests ==
  {"test_vertices_on_unit_sphere", "test_vertex_count",
   "test_pentagonal_symmetry", "test_upper_lower_reflection"}

(* C3: pentagonal_prism_vertices returns exactly 10 vertices, each of norm 1, *)
(* ordered so that for k in 0..4 vertex 2k (upper ring) and vertex 2k+1       *)
(* (lower ring) have equal x and y and opposite z, and all upper-ring         *)
(* vertices share one z; the four prism tests that check this never fail.     *)
C3_PrismVertices ==
  /\ \A t \in PrismTests : outcome[t] # "FAIL"
  /\ tverts # <<>> =>
       /\ Len(tverts) = 10
       /\ \A n \in 1..Len(tverts) : dot(tverts[n], tverts[n]) = QInt(1)
       /\ \A k \in 0..4 :
            /\ tverts[2 * k + 1][1] = tverts[2 * k + 2][1]
            /\ tverts[2 * k + 1][2] = tverts[2 * k + 2][2]
            /\ tverts[2 * k + 1][3] = RNeg(tverts[2 * k + 2][3])
            /\ RSign(tverts[2 * k + 1][3]) = 1
            /\ tverts[2 * k + 1][3] = tverts[1][3]

C3_Witness ==
  /\ tverts # <<>>
  /\ \A t \in PrismTests : outcome[t] = "ok"

IdentityTests ==
  {"test_golden_ratio_identity", "test_bell_squared_identity",
   "test_bell_squared_expansion"}

(* C10: with phi = (1 + sqrt 5)/2, phi^2 = phi + 1 and (4 - phi)^2 = 17 - 7 phi: *)
(* verify_golden_ratio, verify_bell_squared and verify_expansion all return    *)
(* True (their tests never fail), with no brute-force search having run.       *)
C10_Identities ==
  /\ pc = "idle" /\ result = None
  /\ \A t \in IdentityTests : outcome[t] # "FAIL"
  /\ verify_golden_ratio[3] /\ verify_bell_squared[3] /\ verify_expansion[3]
  /\ verify_golden_ratio[1] = verify_golden_ratio[2]
  /\ verify_bell_squared[1] = verify_bell_squared[2]

C10_Witness ==
  /\ pc = "idle"
  /\ \A t \in IdentityTests : outcome[t] = "ok"

(* ---------------- claims on the Cartan algebra ---------------- *)

Called(f) == f \in DOMAIN calls

(* (n+1) - (n-1) phi *)
PatternValue(n) == QSub(QInt(n + 1), QMul(QInt(n - 1), PHI))

(* C15: the determinants of the H2, H3 and H4 Cartan matrices returned by   *)
(* compute_cartan_determinants are (n+1) - (n-1) phi for n = 2, 3, 4, that  *)
(* is 3 - phi, 4 - 2 phi and 5 - 3 phi; verify_determinant_pattern reports  *)
(* every n as matching; and the Gram determinants are det(C_Hn) / 2^n.      *)
C15_DeterminantPattern ==
  /\ Called("compute_cartan_determinants") =>
       LET c == calls["compute_cartan_determinants"]
       IN  /\ c.det_C_H2 = PatternValue(2) /\ c.det_C_H2 = QSub(QInt(3), PHI)
           /\ c.det_C_H3 = PatternValue(3)
           /\ c.det_C_H3 = QSub(QInt(4), QMul(QInt(2), PHI))
           /\ c.det_C_H4 = PatternValue(4)
           /\ c.det_C_H4 = QSub(QInt(5), QMul(QInt(3), PHI))
  /\ Called("verify_determinant_pattern") =>
       LET v == calls["verify_determinant_pattern"]
       IN  /\ DOMAIN v = 1..3
           /\ \A j \in 1..3 :
                /\ v[j][1] = j + 1
                /\ v[j][2] = PatternValue(j + 1)
                /\ v[j][3] = PatternValue(j + 1)
                /\ v[j][4]
  /\ Called("compute_gram_determinants") =>
       LET g == calls["compute_gram_determinants"]
       IN  /\ g.det_G_H2 = QDiv(PatternValue(2), QInt(4))
           /\ g.det_G_H3 = QDiv(PatternValue(3), QInt(8))
           /\ g.det_G_H4 = QDiv(PatternValue(4), QInt(16))

C15_Witness ==
  /\ Called("compute_cartan_determinants")
  /\ Called("verify_determinant_pattern")
  /\ Called("compute_gram_determinants")

(* C16: proof_i_cartan, proof_ii_gram and proof_iii_prism all return        *)
(* S_max = 4 - phi, with gamma^2 and Bell^2 as expected, 16 (det G_H3 -     *)
(* det G_H4) = det C_H2, (4 - phi)(3 phi - 1) = 10 phi - 7 and h^2 = 6 phi  *)
(* det G_H3, and every flag among verified, hierarchy_verified,             *)
(* cross_verified and gram_connection_verified is True.                     *)
C16_ThreeProofsAgree ==
  /\ Called("proof_i_cartan") =>
       LET r == calls["proof_i_cartan"]
       IN  /\ r.verified
           /\ RSign(r.S_max) = 1
           /\ QMul(QMul(r.S_max[1], r.S_max[1]), r.S_max[2])
                = QMul(GSM_BOUND, GSM_BOUND)
           /\ r.gamma_squared = r.gamma_squared_expected
           /\ r.bell_squared = r.bell_squared_expected
  /\ Called("proof_ii_gram") =>
       LET r == calls["proof_ii_gram"]
       IN  /\ r.verified /\ r.hierarchy_verified
           /\ r.S_max = GSM_BOUND
           /\ r.relation = r.det_C_H2
  /\ Called("proof_iii_prism") =>
       LET r == calls["proof_iii_prism"]
       IN  /\ r.verified /\ r.cross_verified /\ r.gram_connection_verified
           /\ r.S_max = GSM_BOUND
           /\ r.cross_lhs = r.cross_rhs
           /\ r.h_squared = r.h_sq_from_gram

C16_Witness ==
  /\ Called("proof_i_cartan")
  /\ Called("proof_ii_gram")
  /\ Called("proof_iii_prism")

(* C18: the four values returned by h4_eigenvalues are 2 -/+ sqrt(u) for    *)
(* the two roots u of u^2 - (3 + phi) u + phi^2 = 0, in increasing order;   *)
(* all four are positive, their sum is 8 and their product is               *)
(* det(C_H4) = 5 - 3 phi.                                                   *)
C18_H4Eigenvalues ==
  Called("h4_eigenvalues") =>
    LET ev == calls["h4_eigenvalues"]
        IsRoot(u) ==
          KAdd(KAdd(KMul(u, u), KNeg(KMul(KNum(QAdd(QInt(3), PHI)), u))),
               KNum(QMul(PHI, PHI))) = KNum(QInt(0))
        two == LNum(QInt(2))
    IN  /\ IsRoot(u1) /\ IsRoot(u2) /\ u1 # u2
        /\ DOMAIN ev = 1..4
        /\ \A i \in 1..4 : LSign(ev[i]) = 1
        /\ \A i \in 1..3 : LSign(LAdd(ev[i + 1], LNeg(ev[i]))) = 1
        /\ LMul(LAdd(two, LNeg(ev[1])), LAdd(two, LNeg(ev[1])))
             = <<u1, KNum(QInt(0))>>
        /\ LMul(LAdd(two, LNeg(ev[2])), LAdd(two, LNeg(ev[2])))
             = <<u2, KNum(QInt(0))>>
        /\ LAdd(ev[1], ev[4]) = LNum(QInt(4))
        /\ LAdd(ev[2], ev[3]) = LNum(QInt(4))
        /\ LAdd(LAdd(ev[1], ev[2]), LAdd(ev[3], ev[4])) = LNum(QInt(8))
        /\ LMul(LMul(ev[1], ev[2]), LMul(ev[3], ev[4]))
             = LNum(QSub(QInt(5), QMul(QInt(3), PHI)))
        /\ LMul(LMul(ev[1], ev[2]), LMul(ev[3], ev[4]))
             = LNum(compute_cartan_determinants.det_C_H4)

C18_Witness ==
  /\ Called("h4_eigenvalues")
  /\ Len(calls["h4_eigenvalues"]) = 4

(* ---------------- claims on the bounds ---------------- *)

(* C17: 4 - phi lies strictly between the classical CHSH limit 2 and the    *)
(* Tsirelson bound 2 sqrt 2, and the test of it never fails.                *)
C17_BetweenClassicalAndTsirelson ==
  /\ QLt(QInt(2), GSM_BOUND)
  /\ QLtR(GSM_BOUND, TSIRELSON)
  /\ outcome["test_gsm_bound_between_classical_and_tsirelson"] # "FAIL"

C17_Witness ==
  outcome["test_gsm_bound_between_classical_and_tsirelson"] = "ok"

(* ---------------- claims on E8Lattice ---------------- *)

(* two entries +/-1 at two distinct positions among 8, zeros elsewhere *)
IsType1Root(r) ==
  /\ DOMAIN r = 1..8
  /\ \A j \in 1..8 : r[j] \in {QInt(0), QInt(1), QInt(-1)}
  /\ Cardinality({j \in 1..8 : r[j] # QInt(0)}) = 2

(* all entries +/-1/2 with an even number of minus signs *)
IsType2Root(r) ==
  /\ DOMAIN r = 1..8
  /\ \A j \in 1..8 : r[j] \in {QRat(1, 2), QRat(-1, 2)}
  /\ Cardinality({j \in 1..8 : r[j] = QRat(-1, 2)}) % 2 = 0

(* C19: the roots generated so far are pairwise distinct, and when          *)
(* E8Lattice() has returned there are exactly 240 of them: the first 112    *)
(* of type 1 and the other 128 of type 2, so num_roots = 240.               *)
C19_E8Roots ==
  /\ Cardinality({roots[n] : n \in 1..Len(roots)}) = Len(roots)
  /\ e8_pc = "done" =>
       /\ num_roots = 240
       /\ Cardinality({self_roots[n] : n \in 1..240}) = 240
       /\ \A n \in 1..112 : IsType1Root(self_roots[n])
       /\ \A n \in 113..240 : IsType2Root(self_roots[n])
       /\ Cardinality({n \in 1..240 : IsType1Root(self_roots[n])}) = 112
       /\ Cardinality({n \in 1..240 : IsType2Root(self_roots[n])}) = 128

C19_Witness ==
  /\ e8_pc = "done"
  /\ Len(self_roots) = 240

(* ---------------- claims on build_600cell_vertices ---------------- *)

(* (+/-1, 0, 0, 0) permuted *)
IsCellType1(v) ==
  /\ \A j \in 1..4 : v[j] \in {QInt(0), QInt(1), QInt(-1)}
  /\ Cardinality({j \in 1..4 : v[j] # QInt(0)}) = 1

(* (+/-1/2)^4 *)
IsCellType2(v) == \A j \in 1..4 : v[j] \in {QRat(1, 2), QRat(-1, 2)}

(* an even permutation of (phi/2, 1/2, 1/(2 phi), 0) with signs on the *)
(* non-zero entries                                                    *)
IsEven(perm) ==
  Cardinality({p \in (1..4) \X (1..4) :
                 p[1] < p[2] /\ perm[p[1]] > perm[p[2]]}) % 2 = 0

IsCellType3(v) ==
  \E perm \in [1..4 -> 0..3] :
    /\ \A i, j \in 1..4 : i # j => perm[i] # perm[j]
    /\ IsEven(perm)
    /\ \A i \in 1..4 :
         LET b == <<QDiv(PHI, QInt(2)), QRat(1, 2),
                    QDiv(QInt(1), QMul(QInt(2), PHI)), QInt(0)>>[perm[i] + 1]
         IN  v[i] = b \/ v[i] = QNeg(b)

(* C20: build_600cell_vertices returns exactly 120 pairwise distinct        *)
(* vertices: 8 of type 1, 16 of type 2 and 96 of type 3, the latter from    *)
(* the 12 even permutations with the 8 sign choices each; the               *)
(* de-duplication keeps every vertex and the warning is never printed.      *)
C20_Cell120 ==
  /\ Len(even_perms) = 12
  /\ \A n \in 1..12 : IsEven(even_perms[n])
  /\ Len(CellType3Iterations) = 96
  /\ cell_pc = "dedup" => unique = SubSeq(vertices, 1, cell_k - 1)
  /\ ~warned
  /\ cell_pc = "done" =>
       /\ Len(cell_result) = 120
       /\ cell_result = unique
       /\ Cardinality({cell_result[n] : n \in 1..120}) = 120
       /\ \A n \in 1..8 : IsCellType1(cell_result[n])
       /\ \A n \in 9..24 : IsCellType2(cell_result[n])
       /\ \A n \in 25..120 : IsCellType3(cell_result[n])

C20_Witness ==
  /\ cell_pc = "done"
  /\ Len(cell_result) = 120
  /\ ~warned

(* ---------------- claims on casimir_uniqueness_test ---------------- *)

(* C21: once built, VALID_EXPONENTS holds exactly the degrees               *)
(* 2, 8, 12, 14, 18, 20, 24, 30, each degree minus 1 and every sum of two   *)
(* degrees that is at most 40, in increasing order; it does not contain 5,  *)
(* it contains 7, 8, 14 and 16, and the conclusion printed about exponent 5 *)
(* is the one for an exponent outside the set.                              *)
C21_ValidExponents ==
  /\ cas_pc \notin {"products", "valid"} =>
       LET degrees == {2, 8, 12, 14, 18, 20, 24, 30}
       IN  /\ SetOf(VALID_EXPONENTS) =
                degrees \cup {d - 1 : d \in degrees}
                  \cup {p[1] + p[2] : p \in {q \in degrees \X degrees :
                                               q[1] + q[2] <= 40}}
           /\ \A i \in 1..(Len(VALID_EXPONENTS) - 1) :
                VALID_EXPONENTS[i] < VALID_EXPONENTS[i + 1]
           /\ 5 \notin SetOf(VALID_EXPONENTS)
           /\ {7, 8, 14, 16} \subseteq SetOf(VALID_EXPONENTS)
  /\ cas_pc \notin {"products", "valid", "check5"} => exponent5 = "VIOLATES"

C21_Witness ==
  /\ cas_pc = "setup"
  /\ exponent5 = "VIOLATES"
  /\ Len(VALID_EXPONENTS) = 27

(* C22: when the search has ended, the entry the sort puts first, *)
(* best_valid, is the GSM formula                                 *)
(* 137 + phi^-7 + phi^-14 + phi^-16 - phi^-8/248.                 *)
C22_GsmIsBest ==
  cas_pc = "done" =>
    /\ best_valid # None
    /\ Formula(best_valid) = "137 + φ^-7 + φ^-14 + φ^-16 - φ^-8/248"

(* ---------------- claims on the degenerate quadruples ---------------- *)

(* C23: every degenerate quadruple (ia = iap or ib = ibp) that              *)
(* brute_force_chsh(require_distinct=False) evaluates has |S| <= 2, so the  *)
(* call returns the max_S = 4 - phi and the exceeds_bound = 0 that the call *)
(* with require_distinct=True returns, reached at a non-degenerate          *)
(* quadruple.                                                               *)
C23_DegenerateBelowClassical ==
  /\ (pc = "loop" /\ ~require_distinct /\ (ia = iap \/ ib = ibp)) =>
       QLe(AbsSAt(<<ia, iap, ib, ibp>>), QInt(2))
  /\ pc = "done" =>
       /\ result.max_S = GSM_BOUND
       /\ result.exceeds_bound = 0
       /\ result.best_quad_indices \in DistinctQuads

C23_Witness ==
  /\ pc = "done"
  /\ ~require_distinct
  /\ result.total_quadruples = 10000
  /\ result.max_S = GSM_BOUND

(* C26: on return the bookkeeping of brute_force_chsh is consistent: max_S  *)
(* is |S| of best_quad_indices, no tested quadruple has |S| above           *)
(* max_S + 1e-12, and optimal_quadruples is the number of tested quadruples *)
(* whose |S| is within 1e-12 of max_S.                                      *)
C26_BookkeepingConsistent ==
  pc = "done" =>
    LET tested == IF require_distinct THEN DistinctQuads
                  ELSE Indices \X Indices \X Indices \X Indices
    IN  /\ result.max_S = AbsSAt(result.best_quad_indices)
        /\ \A q \in tested : ~GtTol(QSub(AbsSAt(q), result.max_S), 12)
        /\ result.optimal_quadruples =
             Cardinality({q \in tested :
                            LtTol(QAbs(QSub(AbsSAt(q), result.max_S)), 12)})

C26_Witness ==
  /\ pc = "done"
  /\ result.optimal_quadruples = 80
  /\ result.best_quad_indices = <<0, 2, 8, 7>>

(* ---------------- claims on the two search kernels ---------------- *)

(* lines 352-377 of brute_force_chsh(require_distinct=True) on the vertex  *)
(* list vs: the running maximum best_S, replaced only by an |S| above      *)
(* best_S + 1e-12; D is the table of dot products, the four loops are in   *)
(* the order of the source                                                 *)
RECURSIVE LoopIbp(_, _, _, _, _, _)
LoopIbp(D, a, ap, b, bp, best) ==
  LET absS == QAbs(QAdd(QAdd(QAdd(QNeg(D[a + 1][b + 1]), D[a + 1][bp + 1]),
                             D[ap + 1][b + 1]), D[ap + 1][bp + 1]))
  IN  IF bp = 10 THEN best
      ELSE IF b = bp THEN LoopIbp(D, a, ap, b, bp + 1, best)
      ELSE IF NewBest(absS, best) THEN LoopIbp(D, a, ap, b, bp + 1, absS)
      ELSE LoopIbp(D, a, ap, b, bp + 1, best)

(* in the three outer loops the test r = best only makes the evaluation *)
(* proceed in the order of the loops; both branches pass on r           *)
RECURSIVE LoopIb(_, _, _, _, _)
LoopIb(D, a, ap, b, best) ==
  LET r == LoopIbp(D, a, ap, b, 0, best)
  IN  IF b = 10 THEN best
      ELSE IF r = best THEN LoopIb(D, a, ap, b + 1, best)
      ELSE LoopIb(D, a, ap, b + 1, r)

RECURSIVE LoopIap(_, _, _, _)
LoopIap(D, a, ap, best) ==
  LET r == LoopIb(D, a, ap, 0, best)
  IN  IF ap = 10 THEN best
      ELSE IF a = ap \/ r = best THEN LoopIap(D, a, ap + 1, best)
      ELSE LoopIap(D, a, ap + 1, r)

RECURSIVE BruteForceMax(_, _, _)
BruteForceMax(D, a, best) ==
  LET r == LoopIap(D, a, 0, best)
  IN  IF a = 10 THEN best
      ELSE IF r = best THEN BruteForceMax(D, a + 1, best)
      ELSE BruteForceMax(D, a + 1, r)

(* C24: for every height of the scan, the best that the inner loop of      *)
(* uniqueness_scan ends with (update on |S| > best) is, up to 1e-12, the   *)
(* max_S that the running maximum of brute_force_chsh(require_distinct =   *)
(* True) (update on |S| > best_S + 1e-12) reaches on the same 10 vertices. *)
C24_SameKernel ==
  (scan_pc = "row" /\ scan_ia = 10) =>
    LET D == [p \in 1..10 |-> [q \in 1..10 |-> dot(scan_verts[p], scan_verts[q])]]
    IN  ~GtTol(QAbs(QSub(scan_best, BruteForceMax(D, 0, QInt(0)))), 12)

C24_Witness ==
  /\ scan_pc = "row"
  /\ scan_ia = 10
  /\ scan_i = 2
  /\ QGt(scan_best, QInt(2))

(* ---------------- claims on gsm_multiparty_bounds ---------------- *)

(* C25: the four values that gsm_multiparty_bounds.h4_eigenvalues returns   *)
(* are the eigenvalues of the H4 Cartan matrix: their sum is its trace 8,   *)
(* their product is its determinant 5 - 3 phi, and they are the values that *)
(* test_gsm_chsh.h4_eigenvalues returns.                                    *)
C25_MultipartyEigenvalues ==
  (party_pc = "done" /\ party_fn = "h4_eigenvalues") =>
    LET ev == party_out.returned
    IN  /\ LAdd(LAdd(ev[1], ev[2]), LAdd(ev[3], ev[4])) = LNum(QInt(8))
        /\ LMul(LMul(ev[1], ev[2]), LMul(ev[3], ev[4]))
             = LNum(QSub(QInt(5), QMul(QInt(3), PHI)))
        /\ \A i \in 1..4 : LSign(LAdd(ev[i], LNeg(h4_eigenvalues[i]))) = 0

(* the documented minimum of the party count *)
MinimumParties(f) == IF f = "gsm_svetlichny_bound" THEN 3 ELSE 2

Positive(v) ==
  \/ v.kind = "float"
  \/ v.kind = "q" /\ QSign(v.value) > 0
  \/ v.kind = "r" /\ RSign(v.value) > 0

(* C27: standard_qm_mermin_bound(n) and gsm_mermin_bound(n) raise a        *)
(* ValueError for every n < 2 and gsm_svetlichny_bound(n) for every n < 3; *)
(* for every n at or above the minimum they return a positive number.      *)
C27_RejectsOrPositive ==
  (party_pc \in {"done", "raised"} /\ party_fn # "h4_eigenvalues") =>
    IF party_n < MinimumParties(party_fn)
    THEN party_out = Raises("ValueError")
    ELSE ~Raised(party_out) /\ Positive(party_out.returned)

(* ---------------- claims on fibonacci_number ---------------- *)

(* the Fibonacci numbers by their recurrence *)
RECURSIVE NthFibonacci(_)
NthFibonacci(n) ==
  IF n = 0 THEN 0
  ELSE IF n = 1 THEN 1
  ELSE NthFibonacci(n - 1) + NthFibonacci(n - 2)

(* C30: fibonacci_number(n) returns the n-th Fibonacci number for every   *)
(* n >= 0 (0 for n = 0, 1 for n = 1, the sum of the two before for        *)
(* n >= 2), returns 0 for every n < 0, and agrees with the table F[0..12] *)
(* of test_gsm_chsh; inside the loop a and b are consecutive Fibonacci    *)
(* numbers.                                                               *)
C30_Fibonacci ==
  /\ fib_pc = "loop" =>
       /\ fib_a = NthFibonacci(fib_i)
       /\ fib_b = NthFibonacci(fib_i + 1)
  /\ fib_pc = "done" =>
       /\ fib_n >= 0 => fib_out = NthFibonacci(fib_n)
       /\ fib_n < 0 => fib_out = 0
       /\ fib_n \in 0..(Len(F) - 1) => fib_out = F[fib_n + 1]

C30_Witness ==
  /\ fib_pc = "done"
  /\ fib_n = 12
  /\ fib_out = 144

(* ---------------- claims on golden_hunter ---------------- *)

(* the <<T-correction, kind, form>> of the entries of a list of matches *)
MatchPairs(ms) ==
  {<<ms[i].t_correction, ms[i].omega_type, ms[i].omega_formula>> : i \in DOMAIN ms}

(* the pairs of a correction of generate_t_corrections(s) and a candidate *)
(* that is_golden_integer(ev - correction, 0.01) reports                  *)
PairsOf(corr, cands) ==
  {<<corr.formula, cands[c][1], cands[c][2]>> : c \in DOMAIN cands}

PairsFor(ev, corr) == PairsOf(corr, Candidates(HSub(HNum(ev), corr.value)))

ReportedPairs(ev, s) ==
  UNION {PairsFor(ev, Correction(s, i)) : i \in 1..(4 * Len(K_VALUES) * Len(N_RANGE))}

OnePerPair(ms, pairs) == MatchPairs(ms) = pairs /\ Len(ms) = Cardinality(pairs)

(* C28: golden_hunter returns its matches sorted by non-decreasing        *)
(* error_ppm, one entry per (T-correction, candidate form) pair for which *)
(* is_golden_integer(exp_value - correction, 0.01) reported the           *)
(* candidate, so the first element has the lowest error; a correction     *)
(* with no candidate contributes no entry.                                *)
C28_SortedMatches ==
  hunt_pc = "done" =>
    /\ \A i \in 1..(Len(hunt_out) - 1) :
         HSign(HSub(hunt_out[i + 1].error_ppm, hunt_out[i].error_ppm)) >= 0
    /\ \A i \in DOMAIN hunt_out :
         HSign(HSub(hunt_out[i].error_ppm, hunt_out[1].error_ppm)) >= 0
    /\ OnePerPair(hunt_out, ReportedPairs(exp_value, spin))

(* the hunt for 11.83 has returned its 37 matches, two of them for the *)
(* same correction                                                     *)
C28_Witness ==
  /\ hunt_pc = "done"
  /\ exp_value = QRat(1183, 100)
  /\ Len(hunt_out) = 37
  /\ \E i, j \in DOMAIN hunt_out :
       /\ i # j
       /\ hunt_out[i].t_correction = hunt_out[j].t_correction

(* C29: for every match of golden_hunter, 'reconstructed' is              *)
(* omega + t_value with omega = exp_value - t_value, so it equals the     *)
(* experimental input and error_ppm is 0 for every match, whichever form  *)
(* was matched and however far omega is from that form's exact value.     *)
C29_ReconstructedIsInput ==
  hunt_pc \in {"loop", "done"} =>
    \A i \in DOMAIN best_matches :
      LET match == best_matches[i]
      IN  /\ match.omega = HSub(HNum(exp_value), match.t_value)
          /\ match.reconstructed = HAdd(match.omega, match.t_value)
          /\ match.reconstructed = HNum(exp_value)
          /\ match.error_ppm = HNum(QInt(0))

(* the hunt for 16.817 has returned matches of two kinds whose omega is *)
(* not the exact value of the form matched                              *)
C29_Witness ==
  /\ hunt_pc = "done"
  /\ exp_value = QRat(16817, 1000)
  /\ hunt_out = best_matches
  /\ \E i, j \in DOMAIN hunt_out :
       /\ hunt_out[i].omega_type # hunt_out[j].omega_type
       /\ hunt_out[i].omega[3] # None
       /\ hunt_out[j].omega[3] # None
====
